---- MODULE Spec2Model ----
(***************************************************************************)
(* Model of the projection-and-risk-scoring pipeline of aging-map:         *)
(*   process_data.py, process_school_data.py, process_closure_risk.py.     *)
(*                                                                         *)
(* Each stage is a batch loop; a stage is modelled as a state machine      *)
(* whose actions are the iterations of that loop.  The stages are checked  *)
(* under separate specifications (SpecFold, ...) that share one variable   *)
(* tuple; a specification leaves the other stages' variables untouched.    *)
(*                                                                         *)
(* Arithmetic.  Python floats are modelled                                 *)
(*  - in the aggregator, as binary floating point with a Prec-bit          *)
(*    significand and round-to-nearest-even addition (IEEE-754 double has  *)
(*    53 bits; the significand is narrowed so that rounding happens within *)
(*    the range TLC explores);                                             *)
(*  - elsewhere, as exact rationals [n |-> numerator, d |-> denominator].  *)
(***************************************************************************)
EXTENDS Integers, Sequences, FiniteSets, TLC

VARIABLES
    prog,          \* which script's row fold is running
    seen,          \* the CSV rows the reader has delivered so far, in file order
    row_count,     \* row_count of the fold loop
    county_data,   \* county_data[fips][year] = accumulator record
    fold_pc,       \* "fold" | "done" | "ValueError"
    site,          \* which function's resampling loop is running
    series,        \* the sparse known-year input of that loop
    ctx,           \* the other inputs of that loop (baselines, schools, multipliers)
    pending,       \* the target years the loop has not reached yet
    resampled,     \* the value the loop derived for each target year reached
    emitted,       \* the output records written so far (entry["years"], proj, ...)
    res_pc,        \* "start" | "loop" | "done" | "skipped" | "IndexError" | "ValueError"
    reported       \* the messages printed about a geography that is left out

foldVars == <<prog, seen, row_count, county_data, fold_pc>>

resVars == <<site, series, ctx, pending, resampled, emitted, res_pc, reported>>

vars == <<prog, seen, row_count, county_data, fold_pc,
          site, series, ctx, pending, resampled, emitted, res_pc, reported>>

(***************************************************************************)
(* Generic helpers for Python dicts                                        *)
(***************************************************************************)
EmptyDict == [k \in {} |-> 0]

DictSet(f, k, v) == [x \in (DOMAIN f) \cup {k} |-> IF x = k THEN v ELSE f[x]]

DictGet(f, k, default) == IF k \in DOMAIN f THEN f[k] ELSE default

RECURSIVE Pow2(_)
Pow2(n) == IF n = 0 THEN 1 ELSE 2 * Pow2(n - 1)

SetMax(S) == CHOOSE x \in S : \A y \in S : y <= x

SetMin(S) == CHOOSE x \in S : \A y \in S : x <= y

(***************************************************************************)
(* Exact rationals, kept in lowest terms with a positive denominator       *)
(***************************************************************************)
Abs(x) == IF x < 0 THEN -x ELSE x

RECURSIVE Gcd(_, _)
Gcd(a, b) == IF b = 0 THEN a ELSE Gcd(b, a % b)

Norm(n, d) ==
    LET g == Gcd(Abs(n), Abs(d))
        sg == IF d < 0 THEN -1 ELSE 1
    IN  [n |-> sg * (n \div g), d |-> sg * (d \div g)]

Rat(v) == [n |-> v, d |-> 1]

RatAdd(a, b) == Norm(a.n * b.d + b.n * a.d, a.d * b.d)

RatSub(a, b) == Norm(a.n * b.d - b.n * a.d, a.d * b.d)

RatMul(a, b) == Norm(a.n * b.n, a.d * b.d)

\* a / b for b # 0
RatDiv(a, b) == Norm(a.n * b.d, a.d * b.n)

RatLt(a, b) == a.n * b.d < b.n * a.d

RatLe(a, b) == a.n * b.d <= b.n * a.d

\* round(x): nearest integer, ties to even
RoundInt(a) ==
    LET fl == a.n \div a.d
        r2 == 2 * (a.n - fl * a.d)
    IN  IF r2 < a.d THEN fl
        ELSE IF r2 > a.d THEN fl + 1
        ELSE IF fl % 2 = 0 THEN fl ELSE fl + 1

\* round(x, k) as the integer x * 10^k rounded; scale = 10^k
RoundScaled(a, scale) == RoundInt(RatMul(a, Rat(scale)))

(***************************************************************************)
(* Bounds                                                                  *)
(***************************************************************************)
MaxRows == 3      \* rows in the modelled CSV extract
MaxSchools == 2   \* schools in the modelled county
Prec == 3         \* significand bits of the modelled float
ProbPrec == 7     \* significand bits of the modelled float in the closure probabilities
MaxPages == 3     \* non-empty pages the modelled API serves
MaxFailures == 2  \* failing requests of a transient outage

(***************************************************************************)
(* Float addition: round-to-nearest, ties-to-even, Prec-bit significand.   *)
(* Values are non-negative multiples of the smallest unit.                 *)
(***************************************************************************)
RECURSIVE Quantum(_, _)
Quantum(x, q) == IF x < Pow2(Prec) * q THEN q ELSE Quantum(x, 2 * q)

RoundNearestEven(x) ==
    LET q  == Quantum(x, 1)
        lo == (x \div q) * q
        r  == x - lo
    IN  IF 2 * r < q THEN lo
        ELSE IF 2 * r > q THEN lo + q
        ELSE IF (lo \div q) % 2 = 0 THEN lo ELSE lo + q

FloatAdd(a, b) == RoundNearestEven(a + b)

(***************************************************************************)
(* Static reference data                                                   *)
(***************************************************************************)
STATE_FIPS ==
    { "01", "02", "04", "05", "06", "08", "09", "10", "11", "12",
      "13", "15", "16", "17", "18", "19", "20", "21", "22", "23",
      "24", "25", "26", "27", "28", "29", "30", "31", "32", "33",
      "34", "35", "36", "37", "38", "39", "40", "41", "42", "44",
      "45", "46", "47", "48", "49", "50", "51", "53", "54", "55", "56" }

\* process_data.YEARS
YEARS == {2020, 2025, 2030, 2035, 2040, 2045, 2050}

\* process_school_data.YEARS
SCHOOL_YEARS == {2025, 2030, 2035, 2040, 2045, 2050}

TARGET_YEARS == {2025, 2030, 2035, 2040, 2045, 2050}

(***************************************************************************)
(* CSV fields are strings; int(), float() and zfill() are conversions.     *)
(***************************************************************************)
IntLiterals == {"2020", "2030", "2031", "3", "14", "18", "99"}

\* int(s): defined on integer literals, raises ValueError otherwise
IsInt(s) == s \in IntLiterals

IntOf(s) ==
    CASE s = "2020" -> 2020
      [] s = "2030" -> 2030
      [] s = "2031" -> 2031
      [] s = "3"    -> 3
      [] s = "14"   -> 14
      [] s = "18"   -> 18
      [] s = "99"   -> 99

\* float(s): defined on numeric literals, raises ValueError otherwise
IsFloat(s) == s \in {"1", "8"}

FloatOf(s) == CASE s = "1" -> 1 [] s = "8" -> 8

\* s.strip().zfill(2) and s.strip().zfill(3)
Zfill2(s) == CASE s = "1" -> "01" [] s = "01" -> "01" [] s = "72" -> "72"

Zfill3(s) == CASE s = "1" -> "001" [] s = "001" -> "001"

\* state_fips + county_fips
Concat(sf, cf) ==
    CASE sf = "01" /\ cf = "001" -> "01001"
      [] sf = "72" /\ cf = "001" -> "72001"

(***************************************************************************)
(* The rows a CSV extract may contain                                      *)
(***************************************************************************)
\* one csv.DictReader row: the YEAR, STATE, COUNTY, AGE and SSP2 columns
Row(y, s, c, a, v) == [Year |-> y, State |-> s, County |-> c, Age |-> a, Ssp2 |-> v]

RowSpace ==
    \* well-formed rows that pass both filters
    { Row(y, "1", "1", a, v) : y \in {"2020", "2030"}, a \in {"3", "14", "18"}, v \in {"1", "8"} }
    \cup
    { Row("2020", "01", "001", "3", "1"),     \* already padded codes
      Row("2031", "1", "1", "x", "1"),        \* year outside the target set, and an AGE that would not parse
      Row("2030", "72", "1", "14", "1"),      \* territory
      Row("2030", "1", "1", "99", "1"),       \* unknown age-band code
      Row("x", "1", "1", "3", "1"),           \* unparseable YEAR
      Row("2030", "1", "1", "x", "1"),        \* unparseable AGE
      Row("2020", "1", "1", "14", "x") }      \* unparseable SSP2

(***************************************************************************)
(* Streaming aggregator: process_hauer (process_data.py) and               *)
(* process_hauer_school_age (process_school_data.py)                       *)
(***************************************************************************)
\* defaultdict factory of process_hauer
HauerZero == [k \in {"total", "65plus", "85plus"} |-> 0]

\* defaultdict factory of process_hauer_school_age
SchoolZero == [k \in {"school_age", "total"} |-> 0]

\* `year not in YEARS and year != 2020`
HauerYearDropped(year) == year \notin YEARS /\ year # 2020

\* `year not in [2020] + YEARS`
SchoolYearDropped(year) == year \notin ({2020} \cup SCHOOL_YEARS)

\* the geography filter is missing
StateDroppedNever(state_fips) == FALSE

\* `state_fips not in STATE_FIPS`
StateDropped(state_fips) == state_fips \notin STATE_FIPS

\* the total is fed only by the rows below the 65+ cutoff
HauerAccumulateSplit(d, age_group, value) ==
    [d EXCEPT !["total"]  = IF age_group >= 14 THEN @ ELSE FloatAdd(@, value),
              !["65plus"] = IF age_group >= 14 THEN FloatAdd(@, value) ELSE @,
              !["85plus"] = IF age_group >= 18 THEN FloatAdd(@, value) ELSE @]

\* the three `+=` of process_hauer
HauerAccumulate(d, age_group, value) ==
    [d EXCEPT !["total"]  = FloatAdd(@, value),
              !["65plus"] = IF age_group >= 14 THEN FloatAdd(@, value) ELSE @,
              !["85plus"] = IF age_group >= 18 THEN FloatAdd(@, value) ELSE @]

\* the two `+=` of process_hauer_school_age
SchoolAccumulate(d, age_group, value) ==
    [d EXCEPT !["total"]      = FloatAdd(@, value),
              !["school_age"] = IF age_group \in {2, 3, 4} THEN FloatAdd(@, value) ELSE @]

\* county_data[fips][year] = d, creating the missing levels as defaultdict does
Store(cd, fips, year, d) == DictSet(cd, fips, DictSet(DictGet(cd, fips, EmptyDict), year, d))

\* the record is built afresh for every row instead of being looked up
FetchFresh(cd, fips, year, zero) == zero

\* county_data[fips][year], as defaultdict yields it
Fetch(cd, fips, year, zero) == DictGet(DictGet(cd, fips, EmptyDict), year, zero)

\* One iteration of the `for row in reader` loop of script p on table cd.
\* The result is the table and where control goes: the next row ("fold"),
\* or out of the function with an uncaught ValueError.
FoldRow(p, cd, row) ==
    IF ~IsInt(row.Year) THEN [pc |-> "ValueError", cd |-> cd]
    ELSE
    LET year == IntOf(row.Year) IN
    IF (IF p = "process_hauer" THEN HauerYearDropped(year) ELSE SchoolYearDropped(year))
    THEN [pc |-> "fold", cd |-> cd]
    ELSE
    LET state_fips  == Zfill2(row.State)
        county_fips == Zfill3(row.County)
    IN
    IF StateDropped(state_fips) THEN [pc |-> "fold", cd |-> cd]
    ELSE IF ~IsInt(row.Age) THEN [pc |-> "ValueError", cd |-> cd]
    ELSE IF ~IsFloat(row.Ssp2) THEN [pc |-> "ValueError", cd |-> cd]
    ELSE
    LET fips      == Concat(state_fips, county_fips)
        age_group == IntOf(row.Age)
        value     == FloatOf(row.Ssp2)
    IN  [pc |-> "fold",
         cd |-> IF p = "process_hauer"
                THEN Store(cd, fips, year,
                           HauerAccumulate(Fetch(cd, fips, year, HauerZero), age_group, value))
                ELSE Store(cd, fips, year,
                           SchoolAccumulate(Fetch(cd, fips, year, SchoolZero), age_group, value))]

\* The whole loop of script p over the rows rs, from table cd
RECURSIVE FoldSeq(_, _, _)
FoldSeq(p, cd, rs) ==
    IF rs = << >> THEN [pc |-> "done", cd |-> cd]
    ELSE LET r == FoldRow(p, cd, Head(rs))
         IN  IF r.pc = "ValueError" THEN r ELSE FoldSeq(p, r.cd, Tail(rs))

FoldIdle ==
    /\ prog = "none"
    /\ seen = << >>
    /\ row_count = 0
    /\ county_data = EmptyDict
    /\ fold_pc = "idle"

FoldInit ==
    /\ prog \in {"process_hauer", "process_hauer_school_age"}
    /\ seen = << >>
    /\ row_count = 0
    /\ county_data = EmptyDict
    /\ fold_pc = "fold"

\* process_hauer: the reader delivers a row and the loop body runs on it
HauerRow ==
    /\ prog = "process_hauer"
    /\ fold_pc = "fold"
    /\ Len(seen) < MaxRows
    /\ \E row \in RowSpace :
         LET r == FoldRow(prog, county_data, row) IN
         /\ seen' = Append(seen, row)
         /\ row_count' = row_count + 1
         /\ county_data' = r.cd
         /\ fold_pc' = r.pc
    /\ UNCHANGED prog
    /\ UNCHANGED resVars

\* process_hauer_school_age: the reader delivers a row and the loop body runs on it
SchoolRow ==
    /\ prog = "process_hauer_school_age"
    /\ fold_pc = "fold"
    /\ Len(seen) < MaxRows
    /\ \E row \in RowSpace :
         LET r == FoldRow(prog, county_data, row) IN
         /\ seen' = Append(seen, row)
         /\ row_count' = row_count + 1
         /\ county_data' = r.cd
         /\ fold_pc' = r.pc
    /\ UNCHANGED prog
    /\ UNCHANGED resVars

\* the reader is exhausted: the loop ends and the table is returned
EndOfFile ==
    /\ fold_pc = "fold"
    /\ fold_pc' = "done"
    /\ UNCHANGED <<prog, seen, row_count, county_data>>
    /\ UNCHANGED resVars

FoldNext == HauerRow \/ SchoolRow \/ EndOfFile

ResIdle ==
    /\ site = "none"
    /\ series = EmptyDict
    /\ ctx = EmptyDict
    /\ pending = {}
    /\ resampled = EmptyDict
    /\ emitted = EmptyDict
    /\ res_pc = "idle"
    /\ reported = {}

InitFold == FoldInit /\ ResIdle

SpecFold == InitFold /\ [][FoldNext]_vars

(***************************************************************************)
(* Properties of the aggregator                                            *)
(***************************************************************************)
\* the (geography, year) keys of an accumulator table
Keys(cd) == UNION { { <<f, y>> : y \in DOMAIN cd[f] } : f \in DOMAIN cd }

\* the rows rs in the order given by the permutation pm of 1..Len(rs)
Permute(rs, pm) == [i \in 1..Len(rs) |-> rs[pm[i]]]

Orderings(rs) == { Permute(rs, pm) : pm \in Permutations(1..Len(rs)) }

\* the exact (unrounded) sum of the values the rows rs contribute to key k
RECURSIVE ExactTotal(_, _, _)
ExactTotal(p, rs, k) ==
    IF rs = << >> THEN 0
    ELSE (IF k \in Keys(FoldRow(p, EmptyDict, Head(rs)).cd) THEN FloatOf(Head(rs).Ssp2) ELSE 0)
         + ExactTotal(p, Tail(rs), k)

\* no addition of the fold rounds: every per-key sum fits the significand
NoRounding == \A k \in Keys(county_data) : ExactTotal(prog, seen, k) < Pow2(Prec)

C3_SubtotalLeTotal ==
    \A k \in Keys(county_data) :
        LET d == county_data[k[1]][k[2]] IN
        IF prog = "process_hauer"
        THEN d["85plus"] <= d["65plus"] /\ d["65plus"] <= d["total"]
        ELSE d["school_age"] <= d["total"]

C3_Witness ==
    /\ prog = "process_hauer"
    /\ \E k \in Keys(county_data) :
         LET d == county_data[k[1]][k[2]] IN
         0 < d["85plus"] /\ d["85plus"] < d["65plus"] /\ d["65plus"] < d["total"]

\* the claim's filter: year in the target-year set and state code in STATE_FIPS
PassesFilters(row) ==
    /\ IsInt(row.Year)
    /\ IntOf(row.Year) \in YEARS
    /\ Zfill2(row.State) \in STATE_FIPS

KeyOf(row) == <<Concat(Zfill2(row.State), Zfill3(row.County)), IntOf(row.Year)>>

SeenRows == { seen[i] : i \in 1..Len(seen) }

\* the row the step delivers, when the step is a row step
RowStep == Len(seen') = Len(seen) + 1

NewRow == seen'[Len(seen')]

\* C4: while the fold runs, the key set of the table is exactly the set of
\* (geography, year) pairs of the rows read that pass both filters, and a row
\* failing a filter leaves the table as it was.
C4_FilterBeforeAccumulate ==
    /\ [](fold_pc # "ValueError" =>
            Keys(county_data) = { KeyOf(row) : row \in { r \in SeenRows : PassesFilters(r) } })
    /\ [][RowStep /\ ~PassesFilters(NewRow) => county_data' = county_data]_vars

C4_Witness ==
    /\ fold_pc = "fold"
    /\ Cardinality(Keys(county_data)) = 1
    /\ \E r \in SeenRows : IsInt(r.Year) /\ IntOf(r.Year) \notin YEARS
    /\ \E r \in SeenRows : IsInt(r.Year) /\ Zfill2(r.State) \notin STATE_FIPS

\* a row the aggregator should treat as malformed
Malformed(row) ==
    \/ ~IsInt(row.Year)
    \/ ~IsInt(row.Age)
    \/ ~IsFloat(row.Ssp2)
    \/ IntOf(row.Age) \notin 1..18

\* C5: a malformed row is skipped: the fold goes on with the next row and no
\* accumulator changes.
C5_MalformedRowSkipped ==
    [][RowStep /\ Malformed(NewRow) => fold_pc' = "fold" /\ county_data' = county_data]_vars

(***************************************************************************)
(* Temporal resampler: the target-year loops of process_hauer and          *)
(* process_cooper (process_data.py), of process_census_school_age and      *)
(* assemble_risk_data (process_school_data.py) and of                      *)
(* extract_census_birth_trajectory (process_closure_risk.py)               *)
(***************************************************************************)
\* `[y for y in avail if y <= target]` and `[y for y in avail if y >= target]`
Before(avail, target) == { y \in avail : y <= target }

After(avail, target) == { y \in avail : y >= target }

\* t = (target - y1) / (y2 - y1)
Frac(target, y1, y2) == Norm(target - y1, y2 - y1)

\* the weight is taken from the wrong end of the interval
LerpSwapped(v1, v2, t) == RatAdd(v2, RatMul(t, RatSub(v1, v2)))

\* v1 + t * (v2 - v1)
Lerp(v1, v2, t) == RatAdd(v1, RatMul(t, RatSub(v2, v1)))

\* the total is taken from the earlier year, only the age bands move
LerpRecordTotalHeld(d1, d2, t) ==
    [k \in DOMAIN d1 |-> IF k = "total" THEN d1[k] ELSE Lerp(d1[k], d2[k], t)]

\* the record interpolated field by field
LerpRecord(d1, d2, t) == [k \in DOMAIN d1 |-> Lerp(d1[k], d2[k], t)]

\* the shortcut for known years is missing: a known year is treated as its
\* own pair of neighbours only when no other year is known
ResampleRecordNoShortcut(years_data, target_year) ==
    LET avail  == DOMAIN years_data
        before == { y \in avail : y < target_year }
        after  == { y \in avail : y > target_year }
    IN  IF before # {} /\ after # {}
        THEN [kind |-> "value",
              d |-> LerpRecord(years_data[SetMax(before)], years_data[SetMin(after)],
                               Frac(target_year, SetMax(before), SetMin(after)))]
        ELSE IF target_year \in avail THEN [kind |-> "value", d |-> years_data[target_year]]
        ELSE IF before # {} THEN [kind |-> "value", d |-> years_data[SetMax(before)]]
        ELSE IF after # {} THEN [kind |-> "value", d |-> years_data[SetMin(after)]]
        ELSE [kind |-> "continue"]

\* process_hauer and process_cooper: the record d for one target year, or
\* `continue` when no year is known
ResampleRecord(years_data, target_year) ==
    IF target_year \in DOMAIN years_data
    THEN [kind |-> "value", d |-> years_data[target_year]]
    ELSE
    LET avail  == DOMAIN years_data
        before == Before(avail, target_year)
        after  == After(avail, target_year)
    IN  IF before # {} /\ after # {}
        THEN LET y1 == SetMax(before)
                 y2 == SetMin(after)
             IN  IF y1 = y2
                 THEN [kind |-> "value", d |-> years_data[y1]]
                 ELSE [kind |-> "value",
                       d |-> LerpRecord(years_data[y1], years_data[y2], Frac(target_year, y1, y2))]
        ELSE IF before # {} THEN [kind |-> "value", d |-> years_data[SetMax(before)]]
        ELSE IF after # {} THEN [kind |-> "value", d |-> years_data[SetMin(after)]]
        ELSE [kind |-> "continue"]

\* the record written to entry["years"][str(target_year)]; percentages are
\* kept in tenths (round(x, 1) * 10)
YearEntry(d) ==
    [pct_65plus |-> RoundScaled(RatDiv(RatMul(Rat(100), d["65plus"]), d["total"]), 10),
     pct_85plus |-> RoundScaled(RatDiv(RatMul(Rat(100), d["85plus"]), d["total"]), 10),
     pop_total  |-> RoundInt(d["total"]),
     pop_65plus |-> RoundInt(d["65plus"]),
     pop_85plus |-> RoundInt(d["85plus"])]

\* process_census_school_age: nat_sa for one target year, or nothing when the
\* year is outside the range of the national projections
NationalSchoolAge(national_projections, yr) ==
    IF yr \in DOMAIN national_projections
    THEN [kind |-> "value", v |-> RatMul(national_projections[yr], Rat(1000))]
    ELSE
    LET avail  == DOMAIN national_projections
        before == Before(avail, yr)
        after  == After(avail, yr)
    IN  IF before # {} /\ after # {}
        THEN LET y1 == SetMax(before)
                 y2 == SetMin(after)
             IN  IF y1 = y2
                 THEN [kind |-> "value", v |-> RatMul(national_projections[y1], Rat(1000))]
                 ELSE [kind |-> "value",
                       v |-> Lerp(RatMul(national_projections[y1], Rat(1000)),
                                  RatMul(national_projections[y2], Rat(1000)),
                                  Frac(yr, y1, y2))]
        ELSE [kind |-> "absent"]

\* assemble_risk_data, demo == "hauer": proj_sa for one year.  hauer_county is
\* hauer_data[fips]; it is the empty dict when fips is not in hauer_data.
HauerProjSa(in_hauer, hauer_county, yr, baseline_sa) ==
    IF in_hauer /\ yr \in DOMAIN hauer_county THEN hauer_county[yr]
    ELSE IF in_hauer
    THEN LET avail  == DOMAIN hauer_county
             before == Before(avail, yr)
             after  == After(avail, yr)
         IN  IF before # {} /\ after # {}
             THEN LET y1 == SetMax(before)
                      y2 == SetMin(after)
                  IN  IF y1 = y2 THEN hauer_county[y1]
                      ELSE Lerp(hauer_county[y1], hauer_county[y2], Frac(yr, y1, y2))
             ELSE baseline_sa
    ELSE baseline_sa

\* assemble_risk_data, demo == "census": proj.get(yr, baseline_sa)
CensusProjSa(in_census, proj, yr, baseline_sa) ==
    IF in_census THEN DictGet(proj, yr, baseline_sa) ELSE baseline_sa

\* extract_census_birth_trajectory: annual_multipliers[y]; max() and min() of
\* an empty generator raise ValueError
AnnualMultiplier(multipliers, y) ==
    IF y \in DOMAIN multipliers THEN [kind |-> "value", v |-> multipliers[y]]
    ELSE
    LET years == DOMAIN multipliers IN
    IF Before(years, y) = {} \/ After(years, y) = {} THEN [kind |-> "ValueError"]
    ELSE
    LET lower == SetMax(Before(years, y))
        upper == SetMin(After(years, y))
    IN  IF lower = upper THEN [kind |-> "value", v |-> multipliers[lower]]
        ELSE [kind |-> "value",
              v |-> Lerp(multipliers[lower], multipliers[upper], Frac(y, lower, upper))]

(***************************************************************************)
(* assemble_risk_data: one (demo, scenario, yr) iteration for one county   *)
(***************************************************************************)
\* `base_sa` of the demographic ratio
BaseSa(c, hauer_county, demo) ==
    IF demo = "hauer"
    THEN IF c.in_hauer /\ 2020 \in DOMAIN hauer_county THEN hauer_county[2020] ELSE c.baseline_sa
    ELSE IF c.in_census THEN c.baseline_school_age ELSE c.baseline_sa

\* `proj_sa` of the demographic ratio
ProjSa(c, hauer_county, demo, yr) ==
    IF demo = "hauer"
    THEN HauerProjSa(c.in_hauer, hauer_county, yr, c.baseline_sa)
    ELSE CensusProjSa(c.in_census, c.projections, yr, c.baseline_sa)

\* demo_ratio = proj_sa / base_sa if base_sa > 0 else 1.0
DemoRatio(proj_sa, base_sa) == IF RatLt(Rat(0), base_sa) THEN RatDiv(proj_sa, base_sa) ELSE Rat(1)

\* tps_multipliers[scenario].get(yr, 1.0)
TpsMult(tps_multipliers, scenario, yr) == DictGet(tps_multipliers[scenario], yr, Rat(1))

\* a school in the 25-50% band is counted as yellow as well as orange
TierOfOverlapping(decline_pct) ==
    [green  |-> IF RatLt(decline_pct, Rat(10)) THEN 1 ELSE 0,
     yellow |-> IF ~RatLt(decline_pct, Rat(10)) /\ RatLt(decline_pct, Rat(50)) THEN 1 ELSE 0,
     orange |-> IF ~RatLt(decline_pct, Rat(25)) /\ RatLt(decline_pct, Rat(50)) THEN 1 ELSE 0,
     red    |-> IF ~RatLt(decline_pct, Rat(50)) THEN 1 ELSE 0]

\* the first test is an `if` of its own: green is counted beside the tier
\* the rest of the chain selects
TierOfGreenApart(decline_pct) ==
    [green  |-> IF RatLt(decline_pct, Rat(10)) THEN 1 ELSE 0,
     yellow |-> IF RatLt(decline_pct, Rat(25)) THEN 1 ELSE 0,
     orange |-> IF ~RatLt(decline_pct, Rat(25)) /\ RatLt(decline_pct, Rat(50)) THEN 1 ELSE 0,
     red    |-> IF ~RatLt(decline_pct, Rat(50)) THEN 1 ELSE 0]

\* the if/elif chain on decline_pct: the increment of each tier counter
TierOf(decline_pct) ==
    IF RatLt(decline_pct, Rat(10)) THEN [green |-> 1, yellow |-> 0, orange |-> 0, red |-> 0]
    ELSE IF RatLt(decline_pct, Rat(25)) THEN [green |-> 0, yellow |-> 1, orange |-> 0, red |-> 0]
    ELSE IF RatLt(decline_pct, Rat(50)) THEN [green |-> 0, yellow |-> 0, orange |-> 1, red |-> 0]
    ELSE [green |-> 0, yellow |-> 0, orange |-> 0, red |-> 1]

\* `for s in school_list`: the counters after the schools of the list
RECURSIVE SchoolTally(_, _, _)
SchoolTally(school_list, combined_ratio, acc) ==
    IF school_list = << >> THEN acc
    ELSE
    LET enrollment  == Head(school_list)
        proj_enroll == RatMul(Rat(enrollment), combined_ratio)
        decline_pct == RatMul(RatSub(Rat(1), combined_ratio), Rat(100))
        tier        == TierOf(decline_pct)
    IN  SchoolTally(Tail(school_list), combined_ratio,
            [projected_enrollment |-> RatAdd(acc.projected_enrollment, proj_enroll),
             green  |-> acc.green + tier.green,
             yellow |-> acc.yellow + tier.yellow,
             orange |-> acc.orange + tier.orange,
             red    |-> acc.red + tier.red,
             below_threshold |-> acc.below_threshold
                                 + (IF RatLt(proj_enroll, Rat(100)) THEN 1 ELSE 0)])

TallyZero ==
    [projected_enrollment |-> Rat(0), green |-> 0, yellow |-> 0, orange |-> 0, red |-> 0,
     below_threshold |-> 0]

RECURSIVE SumSeq(_)
SumSeq(q) == IF q = << >> THEN 0 ELSE Head(q) + SumSeq(Tail(q))

\* the two declines are added instead of the surviving fractions multiplied
CombinedRatioAdditive(demo_ratio, tps_mult) == RatSub(RatAdd(demo_ratio, tps_mult), Rat(1))

\* combined_ratio = demo_ratio * tps_mult
CombinedRatio(demo_ratio, tps_mult) == RatMul(demo_ratio, tps_mult)

\* the local variables of one iteration
AssembleLocals(c, hauer_county, demo, scenario, yr) ==
    LET proj_sa    == ProjSa(c, hauer_county, demo, yr)
        base_sa    == BaseSa(c, hauer_county, demo)
        demo_ratio == DemoRatio(proj_sa, base_sa)
        tps_mult   == TpsMult(c.tps_multipliers, scenario, yr)
    IN  [proj_sa |-> proj_sa, base_sa |-> base_sa, demo_ratio |-> demo_ratio,
         tps_mult |-> tps_mult, combined_ratio |-> CombinedRatio(demo_ratio, tps_mult)]

\* the record written to entry["scenarios"][scenario_key][str(yr)];
\* pct_decline is kept in tenths
AssembleRecord(c, combined_ratio) ==
    LET t == SchoolTally(c.school_list, combined_ratio, TallyZero)
        total_enrollment == SumSeq(c.school_list)
        pct_decline ==
            IF total_enrollment > 0
            THEN RatMul(RatSub(Rat(1), RatDiv(t.projected_enrollment, Rat(total_enrollment))),
                        Rat(100))
            ELSE Rat(0)
    IN  [pct_decline |-> RoundScaled(pct_decline, 10),
         schools_green |-> t.green,
         schools_yellow |-> t.yellow,
         schools_orange |-> t.orange,
         schools_red |-> t.red,
         schools_below_threshold |-> t.below_threshold,
         projected_enrollment |-> RoundInt(t.projected_enrollment)]

(***************************************************************************)
(* Inputs of the resampling loops                                          *)
(***************************************************************************)
\* all sparse series over the years of grid with values in vals
SeriesOver(grid, vals) == UNION { [ks -> vals] : ks \in SUBSET grid }

\* an accumulator record as the fold leaves it
HRec(t, a, b) == [k \in {"total", "65plus", "85plus"} |->
                    IF k = "total" THEN Rat(t) ELSE IF k = "65plus" THEN Rat(a) ELSE Rat(b)]

HauerRecs == { HRec(100, 20, 5), HRec(150, 60, 10), HRec(50, 45, 40), HRec(0, 0, 0) }

\* years of the Hauer extract that may be present for a county
HauerGrid == {2020, 2025, 2030, 2040}

\* the sheets of the Cooper Center workbook: 2020, 2030, 2040, 2050
CooperGrid == {2020, 2030, 2040, 2050}

CooperRecs == { HRec(100, 20, 5), HRec(150, 60, 10) }

\* year columns the Census sheet may carry
CensusGrid == {2022, 2025, 2030, 2040}

BirthGrid == {2022, 2025, 2030, 2050}

\* the target-year lists, in loop order
TargetYearList == <<2025, 2030, 2035, 2040, 2045, 2050>>

\* range(2022, 2051)
BirthYearList == [i \in 1..29 |-> 2021 + i]

DemoSources == <<"hauer", "census">>

Scenarios == <<"pre_hold", "pre_trend", "post_hold", "post_trend">>

\* the nesting `for demo ... for scenario ... for yr in YEARS`, flattened
AssembleOrder ==
    [i \in 1..48 |-> <<DemoSources[((i - 1) \div 24) + 1],
                       Scenarios[(((i - 1) \div 6) % 4) + 1],
                       TargetYearList[((i - 1) % 6) + 1]>>]

\* process_census_school_age: proj of one county, the whole `for yr in YEARS`
CountyProjections(national_projections, school_age, national_acs_school_age) ==
    LET share == IF national_acs_school_age > 0
                 THEN Norm(school_age, national_acs_school_age) ELSE Rat(0)
        got   == { yr \in SCHOOL_YEARS : NationalSchoolAge(national_projections, yr).kind = "value" }
    IN  [yr \in {2020} \cup got |->
            IF yr \in got
            THEN RatMul(NationalSchoolAge(national_projections, yr).v, share)
            ELSE Rat(school_age)]

\* tps_multipliers as compute_tps_multipliers returns them: rounded to 4 places
TpsTables ==
    { [sc \in {"pre_hold", "pre_trend", "post_hold", "post_trend"} |->
          [yr \in SCHOOL_YEARS |-> Rat(1)]],
      [sc \in {"pre_hold", "pre_trend", "post_hold", "post_trend"} |->
          [yr \in SCHOOL_YEARS |->
              IF sc = "pre_hold" THEN Norm(102, 100)
              ELSE IF sc = "post_hold" THEN Norm(95, 100)
              ELSE IF sc = "pre_trend" THEN Norm(100 - ((yr - 2020) \div 5), 100)
              ELSE IF yr < 2045 THEN Norm(100 - 2 * (yr - 2020), 100) ELSE Norm(50, 100)]] }

\* sequences over S of length at most n
RECURSIVE SeqsUpTo(_, _)
SeqsUpTo(S, n) ==
    IF n = 0 THEN { << >> }
    ELSE LET shorter == SeqsUpTo(S, n - 1)
         IN  shorter \cup { Append(q, x) : q \in { r \in shorter : Len(r) = n - 1 }, x \in S }

\* non-empty school lists (enrollments) of a county
SchoolLists == SeqsUpTo({90, 150}, MaxSchools) \ { << >> }

\* census_data[fips] as process_census_school_age builds it from the ACS
\* school-age count sa (national ACS total 2 * sa), or absent
CensusEntries(sa) ==
    { [in_census |-> FALSE, baseline_school_age |-> Rat(0), projections |-> EmptyDict] }
    \cup
    { [in_census |-> TRUE, baseline_school_age |-> Rat(sa),
       projections |-> CountyProjections(np, sa, 2 * sa)] :
         np \in { EmptyDict,
                  [y \in {2025, 2030} |-> IF y = 2025 THEN Rat(2) ELSE Rat(1)],
                  [y \in SCHOOL_YEARS |-> IF y < 2040 THEN Rat(2) ELSE Rat(1)] } }

ResInitHauer ==
    /\ site = "process_hauer"
    /\ series \in (SeriesOver(HauerGrid, HauerRecs) \ {EmptyDict})
    /\ ctx = EmptyDict
    /\ pending = TargetYearList
    /\ resampled = EmptyDict
    /\ emitted = EmptyDict
    /\ res_pc = "loop"

\* a county's ACS baseline (cdata) with the ACS totals of its state
\* (state_totals[sf]): a county that is its whole state, a county older than
\* its state, and a state without anyone of 65 or more
CooperCounties ==
    { [cdata |-> HRec(100, 20, 5), st |-> HRec(100, 20, 5)],
      [cdata |-> HRec(100, 80, 5), st |-> HRec(1000, 200, 50)],
      [cdata |-> HRec(10, 0, 0), st |-> HRec(10, 0, 0)] }

\* share_total, share_65, share_85
CooperShare(cdata, st, k) == IF RatLt(Rat(0), st[k]) THEN RatDiv(cdata[k], st[k]) ELSE Rat(0)

\* proj_years: the ACS baseline at 2020, then every year of the state's
\* projections times the county's shares
CooperProjYears(cdata, st, state_projection) ==
    [yr \in {2020} \cup DOMAIN state_projection |->
        IF yr \in DOMAIN state_projection
        THEN [k \in {"total", "65plus", "85plus"} |->
                 RatMul(state_projection[yr][k], CooperShare(cdata, st, k))]
        ELSE cdata]

ResInitCooper ==
    /\ site = "process_cooper"
    /\ \E c \in CooperCounties, sp \in SeriesOver(CooperGrid, CooperRecs) :
          /\ ctx = c
          /\ series = CooperProjYears(c.cdata, c.st, sp)
    /\ pending = TargetYearList
    /\ resampled = EmptyDict
    /\ emitted = EmptyDict
    /\ res_pc = "loop"

ResInitCensus ==
    /\ site = "process_census_school_age"
    /\ series \in SeriesOver(CensusGrid, {Rat(1), Rat(2)})
    /\ ctx \in { [school_age |-> 1000, national_acs_school_age |-> 2000],
                 [school_age |-> 0, national_acs_school_age |-> 2000],
                 [school_age |-> 0, national_acs_school_age |-> 0] }
    /\ pending = TargetYearList
    /\ resampled = EmptyDict
    /\ emitted = [y \in {2020} |-> Rat(ctx.school_age)]   \* proj[2020] = c["school_age"]
    /\ res_pc = "loop"

ResInitBirth ==
    /\ site = "extract_census_birth_trajectory"
    /\ series \in SeriesOver(BirthGrid, {Rat(1), Rat(100), Rat(150)})
    /\ ctx = EmptyDict
    /\ pending = BirthYearList
    /\ resampled = EmptyDict
    /\ emitted = EmptyDict
    /\ res_pc = "start"

ResInitAssemble ==
    /\ site = "assemble_risk_data"
    /\ series \in SeriesOver({2020, 2030}, {Rat(0), Rat(800), Rat(1200)})
    /\ \E sa \in {0, 1000}, ce \in CensusEntries(1000), sl \in SchoolLists, tt \in TpsTables :
         /\ (ce.in_census => sa = 1000)
         /\ ctx = [in_hauer |-> series # EmptyDict,
                   in_census |-> ce.in_census,
                   baseline_school_age |-> ce.baseline_school_age,
                   projections |-> ce.projections,
                   baseline_sa |-> Rat(sa),
                   school_list |-> sl,
                   tps_multipliers |-> tt]
    /\ pending = AssembleOrder
    /\ resampled = EmptyDict
    /\ emitted = EmptyDict
    /\ res_pc = "loop"

(***************************************************************************)
(* compute_enrollment_decline (process_closure_risk.py): one target year   *)
(* of one state and scenario.  Percentages stored with round(x, 2) are     *)
(* kept in hundredths, post_2022_fraction (round(x, 3)) in thousandths.    *)
(***************************************************************************)
TotalGrades == 13

\* range(2025, 2051)
DeclineYearList == [i \in 1..26 |-> 2024 + i]

\* r.update(extra) on a record
Merge(r, extra) ==
    [k \in (DOMAIN r) \cup (DOMAIN extra) |-> IF k \in DOMAIN extra THEN extra[k] ELSE r[k]]

\* the cohort born in the cutoff year is counted as affected too
Post2022Inclusive(birth_year) == birth_year >= 2022

\* `if birth_year > 2022`
Post2022(birth_year) == birth_year > 2022

\* scenario_data.get(birth_year, {}).get('birth_decline_pct', 0)
BirthDeclineOf(scenario_data, birth_year) ==
    IF birth_year \in DOMAIN scenario_data
    THEN Norm(scenario_data[birth_year].birth_decline_pct, 100)
    ELSE Rat(0)

\* `for birth_year in range(birth_year_start, birth_year_end + 1)`;
\* acc.cohorts lists the birth years the loop has visited
RECURSIVE PipelineScan(_, _, _, _)
PipelineScan(scenario_data, birth_year, birth_year_end, acc) ==
    IF birth_year > birth_year_end THEN acc
    ELSE PipelineScan(scenario_data, birth_year + 1, birth_year_end,
            IF Post2022(birth_year)
            THEN [cohorts |-> Append(acc.cohorts, birth_year),
                  post_2022_grades |-> acc.post_2022_grades + 1,
                  total_birth_decline |->
                      RatAdd(acc.total_birth_decline, BirthDeclineOf(scenario_data, birth_year))]
            ELSE [acc EXCEPT !.cohorts = Append(@, birth_year)])

\* the sum is divided by the whole pipeline length
AvgBirthDeclineOverPipeline(total_birth_decline, post_2022_grades) ==
    IF post_2022_grades > 0 THEN RatDiv(total_birth_decline, Rat(TotalGrades)) ELSE Rat(0)

\* avg_birth_decline = total_birth_decline / post_2022_grades, or 0.0
AvgBirthDecline(total_birth_decline, post_2022_grades) ==
    IF post_2022_grades > 0 THEN RatDiv(total_birth_decline, Rat(post_2022_grades)) ELSE Rat(0)

\* the local variables of one target year
DeclineLocals(scenario_data, target_year) ==
    LET scan == PipelineScan(scenario_data, target_year - 17, target_year - 5,
                             [cohorts |-> << >>, post_2022_grades |-> 0,
                              total_birth_decline |-> Rat(0)])
        avg_birth_decline == AvgBirthDecline(scan.total_birth_decline, scan.post_2022_grades)
        post_2022_fraction == Norm(scan.post_2022_grades, TotalGrades)
    IN  [cohorts |-> scan.cohorts,
         post_2022_grades |-> scan.post_2022_grades,
         avg_birth_decline |-> avg_birth_decline,
         post_2022_fraction |-> post_2022_fraction,
         enrollment_decline_pct |-> RatMul(post_2022_fraction, avg_birth_decline)]

\* birth_decline_pct of the years 2022..2050 as build_fertility_projections
\* leaves it, in hundredths of a percent
BirthTrajectories ==
    { [y \in 2022..2050 |-> [birth_decline_pct |-> 0]],
      [y \in 2022..2050 |-> [birth_decline_pct |-> 25 * (y - 2022)]],
      [y \in 2022..2050 |-> [birth_decline_pct |-> IF y < 2030 THEN 0 - 40 ELSE 333]],
      [y \in 2022..2050 |-> [birth_decline_pct |-> IF y % 2 = 0 THEN 1250 ELSE 7]] }

ResInitDecline ==
    /\ site = "compute_enrollment_decline"
    /\ series \in BirthTrajectories
    /\ ctx \in { [scenario |-> "census"], [scenario |-> "state_trend"] }
    /\ pending = DeclineYearList
    /\ resampled = EmptyDict
    /\ emitted = EmptyDict
    /\ res_pc = "loop"

DeclineYear ==
    /\ site = "compute_enrollment_decline"
    /\ res_pc = "loop"
    /\ pending # << >>
    /\ LET target_year == Head(pending)
           l == DeclineLocals(series, target_year)
       IN  /\ pending' = Tail(pending)
           /\ resampled' = DictSet(resampled, target_year, l)
           /\ series' = [series EXCEPT ![target_year] =
                            Merge(@, [post_2022_fraction |->
                                          RoundScaled(l.post_2022_fraction, 1000),
                                      enrollment_decline_pct |->
                                          RoundScaled(l.enrollment_decline_pct, 100)])]
    /\ UNCHANGED <<site, ctx, emitted, res_pc>>
    /\ UNCHANGED reported
    /\ UNCHANGED foldVars

(***************************************************************************)
(* estimate_closures (process_closure_risk.py): one target year of one     *)
(* state and scenario.  The closure probabilities are binary floats with   *)
(* a ProbPrec-bit significand, held as integer multiples of 1/ProbUnit:    *)
(* the literal, 1.0 - p, each multiplication of the power and the final    *)
(* subtraction are rounded to nearest, ties to even.  The products         *)
(* count * cum_prob and their sum are kept exact.                          *)
(***************************************************************************)
\* the denominator in which the CLOSURE_PROBS tables are written
ProbScale == 100 * 100

\* 1.0 in the units of the modelled float
ProbUnit == Pow2(ProbPrec + 7)

\* the spacing of the floats with a bits-bit significand around x >= 0
RECURSIVE QuantumAt(_, _, _)
QuantumAt(x, bits, q) == IF RatLt(x, Rat(Pow2(bits) * q)) THEN q ELSE QuantumAt(x, bits, 2 * q)

\* x rounded to the nearest float with a bits-bit significand, ties to even
RoundBits(x, bits) ==
    LET q == QuantumAt(x, bits, 1) IN q * RoundInt(RatDiv(x, Rat(q)))

\* the float a probability literal of the table denotes
FloatProb(annual_prob) == RoundBits(Norm(annual_prob * ProbUnit, ProbScale), ProbPrec)

PROJECTION_YEARS == <<2025, 2027, 2030, 2033, 2035, 2037, 2040>>

\* CLOSURE_PROBS, in units of 1/ProbScale
CLOSURE_PROBS ==
    [large_stable |-> 75, mild_decline |-> 100, medium_decline |-> 150,
     small_steep |-> 300, tiny |-> 400]

\* the keys of `buckets`, in insertion order
BucketNames == <<"under100", "100_199", "200_299", "300_499", "500plus">>

\* process_ccd_schools: the size bucket of one school
BucketOf(enrollment) ==
    IF enrollment < 100 THEN "under100"
    ELSE IF enrollment < 200 THEN "100_199"
    ELSE IF enrollment < 300 THEN "200_299"
    ELSE IF enrollment < 500 THEN "300_499"
    ELSE "500plus"

\* a school of 500 pupils or more is counted in the totals but in no bucket
CcdStepNoTopBucket(sd, enrollment) ==
    [total_schools |-> sd.total_schools + 1,
     total_enrollment |-> sd.total_enrollment + enrollment,
     buckets |-> IF enrollment < 500
                 THEN [sd.buckets EXCEPT ![BucketOf(enrollment)] = @ + 1]
                 ELSE sd.buckets]

\* process_ccd_schools: what one school adds to state_data[st]
CcdStep(sd, enrollment) ==
    [total_schools |-> sd.total_schools + 1,
     total_enrollment |-> sd.total_enrollment + enrollment,
     buckets |-> [sd.buckets EXCEPT ![BucketOf(enrollment)] = @ + 1]]

\* process_ccd_schools: state_data[st] after the filtered schools of a state
RECURSIVE CcdAggregate(_, _)
CcdAggregate(filtered, sd) ==
    IF filtered = << >> THEN sd
    ELSE CcdAggregate(Tail(filtered), CcdStep(sd, Head(filtered)))

CcdZero ==
    [total_schools |-> 0, total_enrollment |-> 0,
     buckets |-> [b \in {"under100", "100_199", "200_299", "300_499", "500plus"} |-> 0]]

\* avg_enrollment[bucket_name]
AvgEnrollment(schools, bucket_name) ==
    IF bucket_name = "under100" THEN Rat(55)
    ELSE IF bucket_name = "100_199" THEN Rat(150)
    ELSE IF bucket_name = "200_299" THEN Rat(250)
    ELSE IF bucket_name = "300_499" THEN Rat(400)
    ELSE IF schools.buckets["500plus"] > 0
         THEN LET per == Norm(schools.total_enrollment, schools.buckets["500plus"])
              IN  IF RatLt(per, Rat(750)) THEN Rat(750) ELSE per
         ELSE Rat(750)

\* the comparisons on the decline are turned round
ClosureRuleInverted(projected_enr, decline_ratio) ==
    IF RatLt(projected_enr, Rat(100)) THEN "tiny"
    ELSE IF RatLt(projected_enr, Rat(200)) /\ RatLt(Norm(25, 100), decline_ratio) THEN "small_steep"
    ELSE IF RatLt(decline_ratio, Norm(10, 100)) THEN "medium_decline"
    ELSE IF RatLt(decline_ratio, Norm(3, 100)) THEN "mild_decline"
    ELSE "large_stable"

\* the decline rules are tried before the small-and-steep rule
ClosureRuleReordered(projected_enr, decline_ratio) ==
    IF RatLt(projected_enr, Rat(100)) THEN "tiny"
    ELSE IF RatLt(Norm(10, 100), decline_ratio) THEN "medium_decline"
    ELSE IF RatLt(projected_enr, Rat(200)) /\ RatLt(Norm(25, 100), decline_ratio) THEN "small_steep"
    ELSE IF RatLt(Norm(3, 100), decline_ratio) THEN "mild_decline"
    ELSE "large_stable"

\* the if/elif chain that picks the annual closure probability
ClosureRule(projected_enr, decline_ratio) ==
    IF RatLt(projected_enr, Rat(100)) THEN "tiny"
    ELSE IF RatLt(projected_enr, Rat(200)) /\ RatLt(Norm(25, 100), decline_ratio) THEN "small_steep"
    ELSE IF RatLt(Norm(10, 100), decline_ratio) THEN "medium_decline"
    ELSE IF RatLt(Norm(3, 100), decline_ratio) THEN "mild_decline"
    ELSE "large_stable"

\* acc * q ** n, one rounded multiplication per factor
RECURSIVE PowStep(_, _, _)
PowStep(q, n, acc) ==
    IF n = 0 \/ acc = 0 THEN acc
    ELSE PowStep(q, n - 1, RoundBits(Norm(acc * q, ProbUnit), ProbPrec))

\* q ** n for a float q in [0, 1]
PowFloat(q, n) == PowStep(q, n, ProbUnit)

\* the operands of the outer subtraction are swapped
CumProbNegated(annual_prob, years_from_2025) ==
    LET survive == RoundBits(Rat(ProbUnit - FloatProb(annual_prob)), ProbPrec)
    IN  PowFloat(survive, years_from_2025) - ProbUnit

\* cum_prob = 1.0 - (1.0 - annual_prob) ** years_from_2025
CumProb(annual_prob, years_from_2025) ==
    LET survive == RoundBits(Rat(ProbUnit - FloatProb(annual_prob)), ProbPrec)
    IN  RoundBits(Rat(ProbUnit - PowFloat(survive, years_from_2025)), ProbPrec)

\* `for bucket_name, count in buckets.items()` from bucket i on; acc.chosen
\* keeps projected_enr, annual_prob and cum_prob of each bucket the loop scored
RECURSIVE BucketScan(_, _, _, _, _)
BucketScan(schools, decline_ratio, years_from_2025, i, acc) ==
    IF i > Len(BucketNames) THEN acc
    ELSE
    LET bucket_name == BucketNames[i]
        count == schools.buckets[bucket_name]
        projected_enr == RatMul(AvgEnrollment(schools, bucket_name), RatSub(Rat(1), decline_ratio))
        rule == ClosureRule(projected_enr, decline_ratio)
    IN  IF count = 0 THEN BucketScan(schools, decline_ratio, years_from_2025, i + 1, acc)
        ELSE BucketScan(schools, decline_ratio, years_from_2025, i + 1,
                [expected_closures |-> acc.expected_closures
                                        + count * CumProb(CLOSURE_PROBS[rule], years_from_2025),
                 risk_elevated |-> acc.risk_elevated
                                    + (IF rule # "large_stable" THEN count ELSE 0),
                 risk_severe |-> acc.risk_severe
                                  + (IF rule \in {"tiny", "small_steep"} THEN count ELSE 0),
                 chosen |-> DictSet(acc.chosen, bucket_name,
                               [projected_enr |-> projected_enr,
                                annual_prob |-> CLOSURE_PROBS[rule],
                                cum_prob |-> CumProb(CLOSURE_PROBS[rule], years_from_2025)])])

\* the horizon is not floored
YearsFrom2025Unfloored(target_year) == target_year - 2025

\* years_from_2025 = max(target_year - 2025, 1)
YearsFrom2025(target_year) == IF target_year - 2025 > 1 THEN target_year - 2025 ELSE 1

\* the local variables of one target year
ClosureLocals(schools, scenario_data, target_year) ==
    LET enroll_decline_pct ==
            IF target_year \in DOMAIN scenario_data
            THEN scenario_data[target_year].enrollment_decline_pct ELSE 0
        decline_ratio == Norm(enroll_decline_pct, 100 * 100)
        years_from_2025 == YearsFrom2025(target_year)
        scan == BucketScan(schools, decline_ratio, years_from_2025, 1,
                           [expected_closures |-> 0, risk_elevated |-> 0, risk_severe |-> 0,
                            chosen |-> EmptyDict])
    IN  [decline_ratio |-> decline_ratio,
         years_from_2025 |-> years_from_2025,
         expected_closures |-> scan.expected_closures,
         risk_elevated |-> scan.risk_elevated,
         risk_severe |-> scan.risk_severe,
         chosen |-> scan.chosen]

\* the fields written to yr_data; one-decimal values are kept in tenths
ClosureRecord(schools, l) ==
    LET total == schools.total_schools
        pct(x) == IF total > 0 THEN RoundInt(Norm(x * 1000, total)) ELSE 0
    IN  [projected_enrollment |->
             RoundInt(RatMul(Rat(schools.total_enrollment), RatSub(Rat(1), l.decline_ratio))),
         expected_closures |-> RoundInt(Norm(l.expected_closures * 10, ProbUnit)),
         expected_closures_pct |->
             IF total > 0 THEN RoundInt(Norm(l.expected_closures * 1000, ProbUnit * total)) ELSE 0,
         schools_elevated_risk |-> l.risk_elevated,
         schools_elevated_risk_pct |-> pct(l.risk_elevated),
         schools_severe_risk |-> l.risk_severe,
         schools_severe_risk_pct |-> pct(l.risk_severe)]

\* enrollments of the schools of a state
CcdEnrollments == {55, 150, 250, 400, 600, 2000}

\* state_schools[abbr] as process_ccd_schools builds it
StateSchools == { CcdAggregate(q, CcdZero) : q \in (SeqsUpTo(CcdEnrollments, MaxSchools) \ { << >> }) }

\* enrollment_decline_pct of a scenario, in hundredths of a percent
DeclineLevels == {0 - 200, 0, 300, 301, 1000, 1001, 2500, 2501, 6000, 9000, 100 * 100}

\* scenario_data restricted to the years the loop reads
ClosureScenarios ==
    { [y \in {2025, 2027, 2030, 2033, 2035, 2037, 2040} |-> [enrollment_decline_pct |-> h]] :
         h \in DeclineLevels }
    \cup
    { [y \in {2025, 2027, 2030, 2033, 2035, 2037, 2040} |->
          [enrollment_decline_pct |-> 200 * (y - 2025)]] }

\* a state absent from state_schools: state_schools.get(abbr) is None, and
\* output_json later reads current_schools as 0 and buckets as {}
NoSchools == [schools |-> EmptyDict, current_schools |-> 0,
              current_enrollment |-> 0, buckets |-> EmptyDict]

ResInitClosures ==
    /\ site = "estimate_closures"
    /\ series \in ClosureScenarios
    /\ \/ \E sc \in StateSchools :
             ctx = [schools |-> sc, current_schools |-> sc.total_schools,
                    current_enrollment |-> sc.total_enrollment, buckets |-> sc.buckets]
       \/ ctx = NoSchools
    /\ pending = PROJECTION_YEARS
    /\ resampled = EmptyDict
    /\ emitted = EmptyDict
    /\ res_pc = "loop"

\* `if not schools: continue`: the state is left as build_fertility_projections
\* made it, and nothing is printed
ClosureSkip ==
    /\ site = "estimate_closures"
    /\ res_pc = "loop"
    /\ ctx.schools = EmptyDict
    /\ res_pc' = "skipped"
    /\ UNCHANGED <<site, series, ctx, pending, resampled, emitted>>
    /\ UNCHANGED reported
    /\ UNCHANGED foldVars

ClosureYear ==
    /\ site = "estimate_closures"
    /\ res_pc = "loop"
    /\ ctx.schools # EmptyDict
    /\ pending # << >>
    /\ LET target_year == Head(pending)
           l == ClosureLocals(ctx.schools, series, target_year)
       IN  /\ pending' = Tail(pending)
           /\ resampled' = DictSet(resampled, target_year, l)
           /\ series' = IF target_year \in DOMAIN series
                        THEN [series EXCEPT ![target_year] =
                                 Merge(@, ClosureRecord(ctx.schools, l))]
                        ELSE series
    /\ UNCHANGED <<site, ctx, emitted, res_pc>>
    /\ UNCHANGED reported
    /\ UNCHANGED foldVars

(***************************************************************************)
(* process_ccd_schools (process_closure_risk.py): the aggregation loop     *)
(* `for s in filtered`, one action per school                              *)
(***************************************************************************)
\* the values of state_location / state_mailing in the modelled extract
StateCodes == {"MI", "OH", "", "MICH"}

\* `st and len(st) == 2` over the modelled values
TwoLetterState(st) == st \in {"MI", "OH"}

\* the filtered school records: enrollment is positive
FilteredSchools == { [st |-> c, enrollment |-> e] : c \in StateCodes, e \in {99, 100, 499, 500} }

ResInitCcd ==
    /\ site = "process_ccd_schools"
    /\ series \in (SeqsUpTo(FilteredSchools, MaxSchools) \ { << >> })
    /\ ctx = EmptyDict
    /\ pending = series
    /\ resampled = EmptyDict
    /\ emitted = EmptyDict
    /\ res_pc = "loop"

\* one iteration of `for s in filtered`; emitted is state_data
CcdSchool ==
    /\ site = "process_ccd_schools"
    /\ res_pc = "loop"
    /\ pending # << >>
    /\ LET s == Head(pending)
       IN  /\ pending' = Tail(pending)
           /\ emitted' = IF TwoLetterState(s.st)
                         THEN DictSet(emitted, s.st,
                                      CcdStep(DictGet(emitted, s.st, CcdZero), s.enrollment))
                         ELSE emitted
    /\ UNCHANGED <<site, series, ctx, resampled, res_pc, reported>>
    /\ UNCHANGED foldVars

(***************************************************************************)
(* process_cooper_center.py: compute_closures and the per-state body of    *)
(* main.  Probabilities are modelled floats as in estimate_closures.       *)
(***************************************************************************)
\* CLOSURE_PROBS of process_cooper_center.py, in units of 1/ProbScale
CooperClosureProbs ==
    [large_stable |-> 100, medium_decline |-> 200, small_steep |-> 500, tiny |-> 1000]

\* avg_enrollment[bucket_name] of compute_closures
CooperAvgEnrollment(bucket_name) ==
    IF bucket_name = "under100" THEN Rat(55)
    ELSE IF bucket_name = "100_199" THEN Rat(150)
    ELSE IF bucket_name = "200_299" THEN Rat(250)
    ELSE IF bucket_name = "300_499" THEN Rat(400)
    ELSE Rat(750)

\* the if/elif chain of compute_closures
CooperClosureRule(projected_enr, decline_ratio) ==
    IF RatLt(projected_enr, Rat(100)) THEN "tiny"
    ELSE IF RatLt(projected_enr, Rat(200)) /\ RatLt(Norm(25, 100), decline_ratio) THEN "small_steep"
    ELSE IF RatLt(projected_enr, Rat(300)) /\ RatLt(Norm(10, 100), decline_ratio) THEN "medium_decline"
    ELSE IF RatLt(Norm(10, 100), decline_ratio) THEN "medium_decline"
    ELSE "large_stable"

\* `for bucket_name, count in buckets.items()` of compute_closures, from key i
\* of names on
RECURSIVE CooperBucketScan(_, _, _, _, _, _)
CooperBucketScan(buckets, names, decline_ratio, years_from_baseline, i, acc) ==
    IF i > Len(names) THEN acc
    ELSE
    LET bucket_name == names[i]
        count == buckets[bucket_name]
        projected_enr == RatMul(CooperAvgEnrollment(bucket_name), RatSub(Rat(1), decline_ratio))
        annual_prob == CooperClosureProbs[CooperClosureRule(projected_enr, decline_ratio)]
        years == IF years_from_baseline > 1 THEN years_from_baseline ELSE 1
        cum_prob == CumProb(annual_prob, years)
    IN  IF count = 0
        THEN CooperBucketScan(buckets, names, decline_ratio, years_from_baseline, i + 1, acc)
        ELSE CooperBucketScan(buckets, names, decline_ratio, years_from_baseline, i + 1,
                [expected_closures |-> acc.expected_closures + count * cum_prob,
                 chosen |-> DictSet(acc.chosen, bucket_name,
                               [projected_enr |-> projected_enr, annual_prob |-> annual_prob,
                                cum_prob |-> cum_prob])])

\* the keys of a buckets dict in insertion order
KeysInOrder(buckets) == SelectSeq(BucketNames, LAMBDA b : b \in DOMAIN buckets)

\* compute_closures(decline_ratio, buckets, years_from_baseline): the returned
\* expected_closures (in 1/ProbUnit) and what was chosen per bucket
compute_closures(decline_ratio, buckets, years_from_baseline) ==
    CooperBucketScan(buckets, KeysInOrder(buckets), decline_ratio, years_from_baseline, 1,
                     [expected_closures |-> 0, chosen |-> EmptyDict])

\* main: the local variables of one `for yr in [2030]` iteration
CooperCenterLocals(state_entry, sa_2020, sa_yr, yr) ==
    LET ratio == Norm(sa_yr, sa_2020)
        closure_decline_ratio == RatSub(Rat(1), ratio)
        years_from_2025 == YearsFrom2025(yr)
        grown == RatLe(Rat(1), ratio)
        cc == compute_closures(closure_decline_ratio, state_entry.buckets, years_from_2025)
    IN  [ratio |-> ratio,
         called |-> ~grown,
         decline_ratio |-> closure_decline_ratio,
         years_from_2025 |-> years_from_2025,
         closures |-> IF grown THEN 0 ELSE cc.expected_closures,
         chosen |-> IF grown THEN EmptyDict ELSE cc.chosen]

\* scenario_data[str(yr)]; two-decimal values in hundredths, one-decimal in tenths
CooperCenterRecord(state_entry, sa_2020, sa_yr, l) ==
    [enrollment_decline_pct |-> RoundScaled(RatMul(RatSub(Rat(1), l.ratio), Rat(100)), 100),
     projected_enrollment |-> RoundInt(RatMul(Rat(state_entry.current_enrollment), l.ratio)),
     expected_closures |-> RoundInt(Norm(l.closures * 10, ProbUnit)),
     expected_closures_pct |->
         IF state_entry.current_schools > 0
         THEN RoundInt(Norm(l.closures * 1000, ProbUnit * state_entry.current_schools))
         ELSE 0,
     cooper_school_age_2020 |-> sa_2020,
     cooper_school_age_proj |-> sa_yr]

\* scenario_data['2020']
CooperCenterBaselineRecord(state_entry, sa_2020) ==
    [enrollment_decline_pct |-> 0,
     projected_enrollment |-> state_entry.current_enrollment,
     expected_closures |-> 0,
     expected_closures_pct |-> 0,
     cooper_school_age_2020 |-> sa_2020,
     cooper_school_age_proj |-> sa_2020]

\* the entries of state_projections.json as output_json writes them: a state
\* with schools, or one that estimate_closures passed over
StateEntries ==
    { [current_schools |-> sc.total_schools, current_enrollment |-> sc.total_enrollment,
       buckets |-> sc.buckets] : sc \in StateSchools }
    \cup { [current_schools |-> 0, current_enrollment |-> 0, buckets |-> EmptyDict] }

\* school_age[yr].get(abbr) for one state: absent, or the extracted value
CooperSchoolAge ==
    { sa \in SeriesOver({2020, 2030}, {0, 600, 880, 950, 1000, 1100}) :
         2020 \in DOMAIN sa => sa[2020] \in {0, 1000} }

\* state_entry['scenarios'] as the file holds it: the two scenarios of
\* output_json, alone or with the cooper_center scenario of an earlier run
ScenarioMaps ==
    LET written == [sc \in {"census", "state_trend"} |-> "scenario_output of " \o sc]
    IN  { written,
          [sc \in {"census", "state_trend", "cooper_center"} |->
              IF sc = "cooper_center" THEN EmptyDict ELSE written[sc]] }

\* the scenarios dict is replaced by one that holds the new scenario only
WithCooperCenterOnly(state_entry, scenario_data) ==
    [state_entry EXCEPT !.scenarios = [sc \in {"cooper_center"} |-> scenario_data]]

\* state_entry['scenarios']['cooper_center'] = scenario_data
WithCooperCenter(state_entry, scenario_data) ==
    [state_entry EXCEPT !.scenarios = DictSet(@, "cooper_center", scenario_data)]

ResInitCooperCenter ==
    /\ site = "process_cooper_center.main"
    /\ series \in CooperSchoolAge
    /\ \E e \in StateEntries, sm \in ScenarioMaps : ctx = Merge(e, [scenarios |-> sm])
    /\ pending = <<2030>>
    /\ resampled = EmptyDict
    /\ emitted = EmptyDict
    /\ res_pc = "start"

\* main: the 2020 baseline test of one state, and scenario_data['2020']
CooperCenterBaseline ==
    /\ site = "process_cooper_center.main"
    /\ res_pc = "start"
    /\ IF 2020 \notin DOMAIN series \/ series[2020] = 0
       THEN /\ res_pc' = "skipped"
            /\ reported' = reported \cup {"No 2020 baseline, skipping"}
            /\ UNCHANGED emitted
       ELSE /\ res_pc' = "loop"
            /\ emitted' = DictSet(emitted, 2020, CooperCenterBaselineRecord(ctx, series[2020]))
            /\ UNCHANGED reported
    /\ UNCHANGED <<site, series, ctx, pending, resampled>>
    /\ UNCHANGED foldVars

\* main: one `for yr in [2030]` iteration of one state; after the last
\* year scenario_data is stored in the state's entry
CooperCenterYear ==
    /\ site = "process_cooper_center.main"
    /\ res_pc = "loop"
    /\ pending # << >>
    /\ LET yr == Head(pending)
       IN  /\ pending' = Tail(pending)
           /\ IF yr \notin DOMAIN series \/ series[yr] = 0
              THEN UNCHANGED <<resampled, emitted>>
              ELSE LET l == CooperCenterLocals(ctx, series[2020], series[yr], yr)
                   IN  /\ resampled' = DictSet(resampled, yr, l)
                       /\ emitted' = DictSet(emitted, yr,
                                        CooperCenterRecord(ctx, series[2020], series[yr], l))
    /\ ctx' = IF pending' = << >> THEN WithCooperCenter(ctx, emitted') ELSE ctx
    /\ UNCHANGED <<site, series, res_pc, reported>>
    /\ UNCHANGED foldVars

(***************************************************************************)
(* The resampling loops, one action per loop iteration                     *)
(***************************************************************************)
\* process_hauer and process_cooper: one `for target_year in TARGET_YEARS`
\* iteration, from the lookup of d to the write of entry["years"]
RecordTargetYear ==
    LET target_year == Head(pending)
        r == ResampleRecord(series, target_year)
    IN  /\ pending' = Tail(pending)
        /\ IF r.kind = "continue"
           THEN UNCHANGED <<resampled, emitted>>
           ELSE /\ resampled' = DictSet(resampled, target_year, r.d)
                /\ emitted' = IF RatLt(Rat(0), r.d["total"])
                              THEN DictSet(emitted, target_year, YearEntry(r.d))
                              ELSE emitted
        /\ UNCHANGED <<site, series, ctx, res_pc>>

HauerTargetYear ==
    /\ site = "process_hauer"
    /\ res_pc = "loop"
    /\ pending # << >>
    /\ RecordTargetYear
    /\ UNCHANGED reported
    /\ UNCHANGED foldVars

CooperTargetYear ==
    /\ site = "process_cooper"
    /\ res_pc = "loop"
    /\ pending # << >>
    /\ RecordTargetYear
    /\ UNCHANGED reported
    /\ UNCHANGED foldVars

\* process_census_school_age: one `for yr in YEARS` iteration for a county
CensusSchoolAgeYear ==
    /\ site = "process_census_school_age"
    /\ res_pc = "loop"
    /\ pending # << >>
    /\ LET yr == Head(pending)
           r == NationalSchoolAge(series, yr)
           share == IF ctx.national_acs_school_age > 0
                    THEN Norm(ctx.school_age, ctx.national_acs_school_age) ELSE Rat(0)
       IN  /\ pending' = Tail(pending)
           /\ IF r.kind = "value"
              THEN /\ resampled' = DictSet(resampled, yr, r.v)
                   /\ emitted' = DictSet(emitted, yr, RatMul(r.v, share))
              ELSE UNCHANGED <<resampled, emitted>>
    /\ UNCHANGED <<site, series, ctx, res_pc>>
    /\ UNCHANGED reported
    /\ UNCHANGED foldVars

\* extract_census_birth_trajectory: `baseline = under5[0]` and the multipliers;
\* the columns are taken to be in ascending year order, as in the sheet
BirthBaseline ==
    /\ site = "extract_census_birth_trajectory"
    /\ res_pc = "start"
    /\ IF series = EmptyDict
       THEN /\ res_pc' = "IndexError"
            /\ UNCHANGED ctx
       ELSE /\ res_pc' = "loop"
            /\ ctx' = [multipliers |->
                         [y \in DOMAIN series |->
                            RatDiv(series[y], series[SetMin(DOMAIN series)])]]
    /\ UNCHANGED <<site, series, pending, resampled, emitted>>
    /\ UNCHANGED reported
    /\ UNCHANGED foldVars

\* extract_census_birth_trajectory: one `for y in range(2022, 2051)` iteration
BirthYear ==
    /\ site = "extract_census_birth_trajectory"
    /\ res_pc = "loop"
    /\ pending # << >>
    /\ LET y == Head(pending)
           r == AnnualMultiplier(ctx.multipliers, y)
       IN  IF r.kind = "ValueError"
           THEN /\ res_pc' = "ValueError"
                /\ UNCHANGED <<pending, resampled, emitted>>
           ELSE /\ res_pc' = res_pc
                /\ pending' = Tail(pending)
                /\ resampled' = DictSet(resampled, y, r.v)
                /\ emitted' = DictSet(emitted, y, r.v)
    /\ UNCHANGED <<site, series, ctx>>
    /\ UNCHANGED reported
    /\ UNCHANGED foldVars

\* the scenario key carries the participation scenario only
ScenarioKeyShort(demo, scenario) == scenario

\* scenario_key = f"{demo}_{scenario}"
ScenarioKey(demo, scenario) == demo \o "_" \o scenario

\* where the record of an iteration is written:
\* entry["scenarios"][scenario_key][str(yr)]
RecordKey(it) == <<ScenarioKey(it[1], it[2]), ToString(it[3])>>

\* assemble_risk_data: one `for yr in YEARS` iteration of one demo and scenario
AssembleYear ==
    /\ site = "assemble_risk_data"
    /\ res_pc = "loop"
    /\ pending # << >>
    /\ LET it == Head(pending)
           locals == AssembleLocals(ctx, series, it[1], it[2], it[3])
       IN  /\ pending' = Tail(pending)
           /\ resampled' = DictSet(resampled, it, locals)
           /\ emitted' = DictSet(emitted, RecordKey(it), AssembleRecord(ctx, locals.combined_ratio))
    /\ UNCHANGED <<site, series, ctx, res_pc>>
    /\ UNCHANGED reported
    /\ UNCHANGED foldVars

\* the loop has run through its list
LoopEnd ==
    /\ res_pc = "loop"
    /\ pending = << >>
    /\ res_pc' = "done"
    /\ UNCHANGED <<site, series, ctx, pending, resampled, emitted>>
    /\ UNCHANGED reported
    /\ UNCHANGED foldVars

(***************************************************************************)
(* build_fertility_projections (process_closure_risk.py): one year of one  *)
(* state.  Rates are exact rationals; the annual decline and the powers of *)
(* the annual survival are floats in units of 1/ProbUnit.                  *)
(***************************************************************************)
FERTILITY_FLOOR == 35

\* entries of STATE_FERTILITY; rate_2022 in tenths, decline_2005_2022 in
\* thousandths
STATE_FERTILITY ==
    { [state |-> "South Dakota", rate_2022 |-> 665, decline_2005_2022 |-> 0 - 110],
      [state |-> "Louisiana", rate_2022 |-> 618, decline_2005_2022 |-> 0 - 3],
      [state |-> "Utah", rate_2022 |-> 613, decline_2005_2022 |-> 0 - 339],
      [state |-> "Vermont", rate_2022 |-> 443, decline_2005_2022 |-> 0 - 118] }

\* the floats of [0, 1] with a ProbPrec-bit significand, in units of 1/ProbUnit
ProbFloats == { f \in { m * Pow2(e) : m \in 0..Pow2(ProbPrec), e \in 0..7 } : f <= ProbUnit }

\* x ** (1.0 / 17.0): the float whose 17th power is nearest to x, the
\* smallest of them when several are
Root17(x) ==
    LET err == [f \in ProbFloats |-> Abs(PowFloat(f, 17) - x)]
        least == SetMin({ err[f] : f \in ProbFloats })
    IN  SetMin({ f \in ProbFloats : err[f] = least })

\* annual_decline = 1.0 - (1.0 - decline_17yr) ** (1.0 / 17.0), 0.0 when
\* decline_17yr is not positive; decline_17yr in thousandths
AnnualDecline(decline_17yr) ==
    IF decline_17yr > 0
    THEN LET base == RoundBits(Norm((1000 - decline_17yr) * ProbUnit, 1000), ProbPrec)
         IN  RoundBits(Rat(ProbUnit - Root17(base)), ProbPrec)
    ELSE 0

\* trend_rate = max(trend_rate, FERTILITY_FLOOR)
TrendRateFloored(raw) ==
    IF RatLt(raw, Rat(FERTILITY_FLOOR)) THEN Rat(FERTILITY_FLOOR) ELSE raw

\* the local variables of one `for year in range(2022, 2051)` iteration
FertilityLocals(fdata, annual_decline, census_multipliers, year) ==
    LET rate_2022 == Norm(fdata.rate_2022, 10)
        mult == IF year \in DOMAIN census_multipliers
                THEN census_multipliers[year] ELSE Rat(1)
        census_rate == RatMul(rate_2022, mult)
        years_from_2022 == year - 2022
        survive == RoundBits(Rat(ProbUnit - annual_decline), ProbPrec)
        trend_rate == TrendRateFloored(
                         RatMul(rate_2022, Norm(PowFloat(survive, years_from_2022), ProbUnit)))
    IN  [rate_2022 |-> rate_2022,
         mult |-> mult,
         census_rate |-> census_rate,
         trend_rate |-> trend_rate,
         trend_mult |-> RatDiv(trend_rate, rate_2022)]

\* state_proj['census'][year] and state_proj['state_trend'][year], in
\* hundredths
FertilityRecord(l) ==
    [census |->
        [rate |-> RoundScaled(l.census_rate, 100),
         birth_decline_pct |-> RoundScaled(RatMul(RatSub(Rat(1), l.mult), Rat(100)), 100)],
     state_trend |->
        [rate |-> RoundScaled(l.trend_rate, 100),
         birth_decline_pct |->
             RoundScaled(RatMul(RatSub(Rat(1), l.trend_mult), Rat(100)), 100)]]

\* census_multipliers as extract_census_birth_trajectory returns it: one
\* positive ratio for every year 2022..2050, 1 in 2022
CensusMultipliers ==
    { [y \in 2022..2050 |-> Rat(1)],
      [y \in 2022..2050 |-> Norm(1000 - 5 * (y - 2022), 1000)],
      [y \in 2022..2050 |-> Norm(100 - 2 * (y - 2022), 100)],
      [y \in 2022..2050 |-> Norm(100 + (y - 2022), 100)] }

ResInitFertility ==
    /\ site = "build_fertility_projections"
    /\ series \in CensusMultipliers
    /\ \E fdata \in STATE_FERTILITY :
          ctx = [fdata |-> fdata,
                 annual_decline |->
                    AnnualDecline(IF fdata.decline_2005_2022 < 0
                                  THEN 0 - fdata.decline_2005_2022
                                  ELSE fdata.decline_2005_2022)]
    /\ pending = BirthYearList
    /\ resampled = EmptyDict
    /\ emitted = EmptyDict
    /\ res_pc = "loop"

FertilityYear ==
    /\ site = "build_fertility_projections"
    /\ res_pc = "loop"
    /\ pending # << >>
    /\ LET year == Head(pending)
           l == FertilityLocals(ctx.fdata, ctx.annual_decline, series, year)
       IN  /\ pending' = Tail(pending)
           /\ resampled' = DictSet(resampled, year, l)
           /\ emitted' = DictSet(emitted, year, FertilityRecord(l))
    /\ UNCHANGED <<site, series, ctx, res_pc>>
    /\ UNCHANGED reported
    /\ UNCHANGED foldVars

(***************************************************************************)
(* compute_tps_multipliers (process_school_data.py): one scenario and year *)
(* of the multiplier loop.  Shares, fits and multipliers are exact         *)
(* rationals; the stored multiplier (round(x, 4)) is kept in 1/10000.      *)
(***************************************************************************)
RECURSIVE RatSum(_, _)
RatSum(q, i) == IF i > Len(q) THEN Rat(0) ELSE RatAdd(q[i], RatSum(q, i + 1))

\* the least-squares line through (0, shares[1]), (1, shares[2]), ...
LinearFit(shares) ==
    LET n == Len(shares)
        x_mean == Norm(n - 1, 2)
        y_mean == RatDiv(RatSum(shares, 1), Rat(n))
        num == RatSum([i \in 1..n |->
                         RatMul(RatSub(Rat(i - 1), x_mean), RatSub(shares[i], y_mean))], 1)
        den == RatSum([i \in 1..n |->
                         RatMul(RatSub(Rat(i - 1), x_mean), RatSub(Rat(i - 1), x_mean))], 1)
        slope == IF den.n # 0 THEN RatDiv(num, den) ELSE Rat(0)
    IN  [avg |-> y_mean, slope |-> slope,
         intercept |-> RatSub(y_mean, RatMul(slope, x_mean))]

TpsScenarioNames == <<"pre_hold", "pre_trend", "post_hold", "post_trend">>

SchoolYearList == <<2025, 2030, 2035, 2040, 2045, 2050>>

\* the (scenario, yr) pairs in the order the nested loops visit them
TpsOrder ==
    [i \in 1..(Len(TpsScenarioNames) * Len(SchoolYearList)) |->
        <<TpsScenarioNames[((i - 1) \div Len(SchoolYearList)) + 1],
          SchoolYearList[((i - 1) % Len(SchoolYearList)) + 1]>>]

\* the projected share is used as the trend gives it
ShareFloorNone(future_share, current_share) == future_share

\* future_share = max(future_share, current_share * 0.5)
ShareFloor(future_share, current_share) ==
    LET half == RatMul(current_share, Norm(1, 2))
    IN  IF RatLt(future_share, half) THEN half ELSE future_share

\* the local variables of one iteration of the inner loop
TpsLocals(fits, scenario, yr) ==
    LET raw == IF scenario = "pre_hold" THEN fits.pre.avg
               ELSE IF scenario = "pre_trend"
                    THEN RatAdd(fits.pre.intercept,
                                RatMul(fits.pre.slope, Rat(4 + (yr - 2020))))
               ELSE IF scenario = "post_hold" THEN fits.post.avg
               ELSE RatAdd(fits.post.intercept,
                           RatMul(fits.post.slope, Rat(3 + (yr - 2024))))
        future_share == ShareFloor(raw, fits.current_share)
    IN  [raw |-> raw, future_share |-> future_share,
         mult |-> RatDiv(future_share, fits.current_share)]

\* tps / population of the five pre-pandemic school years, in percent
PreShareSeries ==
    { <<Rat(85), Rat(85), Rat(85), Rat(85), Rat(85)>>,
      <<Rat(86), Rat(85), Rat(85), Rat(84), Rat(83)>>,
      <<Rat(90), Rat(80), Rat(70), Rat(60), Rat(50)>>,
      <<Rat(80), Rat(81), Rat(83), Rat(84), Rat(86)>> }

\* tps / population of the four post-pandemic school years, in percent
PostShareSeries ==
    { <<Rat(80), Rat(80), Rat(80), Rat(80)>>,
      <<Rat(82), Rat(81), Rat(80), Rat(80)>>,
      <<Rat(84), Rat(82), Rat(79), Rat(77)>>,
      <<Rat(78), Rat(79), Rat(80), Rat(82)>> }

ResInitTps ==
    /\ site = "compute_tps_multipliers"
    /\ series = EmptyDict
    /\ \E pre \in PreShareSeries, post \in PostShareSeries :
          ctx = [pre |-> LinearFit(pre), post |-> LinearFit(post),
                 current_share |-> post[Len(post)]]
    /\ pending = TpsOrder
    /\ resampled = EmptyDict
    /\ emitted = EmptyDict
    /\ res_pc = "loop"

TpsMultiplierStep ==
    /\ site = "compute_tps_multipliers"
    /\ res_pc = "loop"
    /\ pending # << >>
    /\ LET scenario == Head(pending)[1]
           yr == Head(pending)[2]
           l == TpsLocals(ctx, scenario, yr)
       IN  /\ pending' = Tail(pending)
           /\ resampled' = DictSet(resampled, Head(pending), l)
           /\ emitted' = DictSet(emitted, Head(pending), RoundScaled(l.mult, 100 * 100))
    /\ UNCHANGED <<site, series, ctx, res_pc>>
    /\ UNCHANGED reported
    /\ UNCHANGED foldVars

(***************************************************************************)
(* process_nces (process_state_enrollment.py): one state.  `series` is     *)
(* proj (the source years), `resampled` the dict `years`, `emitted` the    *)
(* state's records by year.  Enrollments are whole counts and the sums are *)
(* exact rationals.                                                        *)
(***************************************************************************)
\* sorted(S) as a sequence
RECURSIVE Ascending(_)
Ascending(S) == IF S = {} THEN << >> ELSE <<SetMin(S)>> \o Ascending(S \ {SetMin(S)})

\* range(a, b) as a sequence
Range(a, b) == [i \in 1..(b - a) |-> a + i - 1]

\* `if 2025 in years and 2031 in years`
HasTrendYears(years) == 2025 \in DOMAIN years /\ 2031 \in DOMAIN years

\* years[y] = round(v2025 + frac * (v2031 - v2025))
NcesInterpolated(years, y) ==
    LET v2025 == years[2025]
        v2031 == years[2031]
        frac == Norm(y - 2025, 2031 - 2025)
    IN  RoundInt(RatAdd(Rat(v2025), RatMul(frac, Rat(v2031 - v2025))))

\* the extended value is not floored
NcesExtrapolatedUnfloored(years, y) ==
    LET annual_change == Norm(years[2031] - years[2025], 6)
    IN  RoundInt(RatAdd(Rat(years[2031]), RatMul(annual_change, Rat(y - 2031))))

\* years[y] = max(0, round(years[2031] + annual_change * (y - 2031)))
NcesExtrapolated(years, y) ==
    LET annual_change == Norm(years[2031] - years[2025], 6)
        v == RoundInt(RatAdd(Rat(years[2031]), RatMul(annual_change, Rat(y - 2031))))
    IN  IF v > 0 THEN v ELSE 0

\* nces_data[abbr] of one state
NcesSources ==
    { [y \in {2022, 2025, 2031} |-> IF y = 2031 THEN p[2] ELSE p[1]] :
         p \in { <<1200, 600>>, <<600, 1200>>, <<600, 600>>, <<7, 0>>, <<0, 0>>,
                 <<100, 97>>, <<530, 498>> } }
    \cup
    { (2022 :> 700 @@ 2025 :> 650 @@ 2027 :> 640),
      (2025 :> 650 @@ 2028 :> 999 @@ 2031 :> 500 @@ 2035 :> 999),
      (2022 :> 700 @@ 2031 :> 500 @@ 2035 :> 450) }

ResInitNces ==
    /\ site = "process_nces"
    /\ series \in NcesSources
    /\ ctx = EmptyDict
    /\ resampled = series
    /\ emitted = EmptyDict
    /\ IF HasTrendYears(series)
       THEN pending = Range(2026, 2031) /\ res_pc = "interpolate"
       ELSE pending = Ascending(DOMAIN series) /\ res_pc = "records"

\* one `for y in range(2026, 2031)` iteration; after the last one the
\* second `if` is taken
NcesInterpolate ==
    /\ site = "process_nces"
    /\ res_pc = "interpolate"
    /\ pending # << >>
    /\ resampled' = DictSet(resampled, Head(pending), NcesInterpolated(resampled, Head(pending)))
    /\ IF Tail(pending) = << >>
       THEN pending' = Range(2032, 2051) /\ res_pc' = "extrapolate"
       ELSE pending' = Tail(pending) /\ res_pc' = res_pc
    /\ UNCHANGED <<site, series, ctx, emitted>>
    /\ UNCHANGED reported
    /\ UNCHANGED foldVars

\* one `for y in range(2032, 2051)` iteration; after the last one the
\* record loop starts over sorted(years.items())
NcesExtrapolate ==
    /\ site = "process_nces"
    /\ res_pc = "extrapolate"
    /\ pending # << >>
    /\ resampled' = DictSet(resampled, Head(pending), NcesExtrapolated(resampled, Head(pending)))
    /\ IF Tail(pending) = << >>
       THEN pending' = Ascending(DOMAIN resampled') /\ res_pc' = "records"
       ELSE pending' = Tail(pending) /\ res_pc' = res_pc
    /\ UNCHANGED <<site, series, ctx, emitted>>
    /\ UNCHANGED reported
    /\ UNCHANGED foldVars

\* one `for year, enrollment in sorted(years.items())` iteration
NcesRecord ==
    /\ site = "process_nces"
    /\ res_pc = "records"
    /\ pending # << >>
    /\ LET year == Head(pending)
       IN  emitted' = DictSet(emitted, year,
                         [projected_enrollment |-> resampled[year],
                          interpolated |-> year \in 2026..2030,
                          extrapolated |-> year > 2031])
    /\ pending' = Tail(pending)
    /\ res_pc' = IF Tail(pending) = << >> THEN "done" ELSE res_pc
    /\ UNCHANGED <<site, series, ctx, resampled>>
    /\ UNCHANGED reported
    /\ UNCHANGED foldVars

InitYearLoops ==
    /\ FoldIdle
    /\ reported = {}
    /\ \/ ResInitHauer
       \/ ResInitCooper
       \/ ResInitCensus
       \/ ResInitBirth
       \/ ResInitAssemble
       \/ ResInitDecline
       \/ ResInitClosures
       \/ ResInitCooperCenter
       \/ ResInitCcd
       \/ ResInitFertility
       \/ ResInitTps
       \/ ResInitNces

YearLoopNext ==
    \/ HauerTargetYear
    \/ CooperTargetYear
    \/ CensusSchoolAgeYear
    \/ BirthBaseline
    \/ BirthYear
    \/ AssembleYear
    \/ DeclineYear
    \/ ClosureYear
    \/ ClosureSkip
    \/ CooperCenterBaseline
    \/ CooperCenterYear
    \/ CcdSchool
    \/ FertilityYear
    \/ TpsMultiplierStep
    \/ NcesInterpolate
    \/ NcesExtrapolate
    \/ NcesRecord
    \/ LoopEnd

SpecYearLoops == InitYearLoops /\ [][YearLoopNext]_vars

(***************************************************************************)
(* Properties of the resampling loops                                      *)
(***************************************************************************)
ResampleSites ==
    {"process_hauer", "process_cooper", "process_census_school_age",
     "extract_census_birth_trajectory"}

\* the list the loop of the current site runs through
TargetsOf(s) ==
    IF s = "extract_census_birth_trajectory" THEN BirthYearList
    ELSE IF s = "assemble_risk_data" THEN AssembleOrder
    ELSE IF s = "compute_enrollment_decline" THEN DeclineYearList
    ELSE IF s = "estimate_closures" THEN PROJECTION_YEARS
    ELSE IF s = "process_cooper_center.main" THEN <<2030>>
    ELSE TargetYearList

\* the targets whose iteration has completed
Processed ==
    IF res_pc = "start" THEN {}
    ELSE { TargetsOf(site)[i] : i \in 1..(Len(TargetsOf(site)) - Len(pending)) }

\* the known points the loop of the current site reads: multipliers,
\* national school-age in persons, or years_data
KnownSeries ==
    IF site = "extract_census_birth_trajectory"
    THEN IF res_pc \in {"start", "IndexError"} THEN EmptyDict ELSE ctx.multipliers
    ELSE IF site = "process_census_school_age"
    THEN [y \in DOMAIN series |-> RatMul(series[y], Rat(1000))]
    ELSE series

RecordSites == {"process_hauer", "process_cooper"}

\* v1 + (target - y1)/(y2 - y1) * (v2 - v1), written out
Interpolated(v1, v2, y1, y2, target) ==
    RatAdd(v1, RatDiv(RatMul(Rat(target - y1), RatSub(v2, v1)), Rat(y2 - y1)))

\* C6: a processed target year that is a known year of the series has the
\* known value as the resampler's output, unchanged.
C6_KnownYearUnchanged ==
    site \in ResampleSites =>
        \A y \in Processed \cap DOMAIN KnownSeries :
            /\ y \in DOMAIN resampled
            /\ resampled[y] = KnownSeries[y]

\* a known year whose neighbours would interpolate to a different value
C6_Witness ==
    /\ site = "process_hauer"
    /\ {2025, 2030, 2040} \subseteq DOMAIN series
    /\ series[2025] = series[2040]
    /\ series[2030] # series[2025]
    /\ 2030 \in DOMAIN resampled
    /\ resampled[2030] = series[2030]

\* the two known years around a target year
Lower(y) == SetMax({ k \in DOMAIN KnownSeries : k < y })

Upper(y) == SetMin({ k \in DOMAIN KnownSeries : k > y })

StrictlyInside(y) ==
    /\ y \notin DOMAIN KnownSeries
    /\ \E k \in DOMAIN KnownSeries : k < y
    /\ \E k \in DOMAIN KnownSeries : k > y

\* C7: a processed target year strictly between two known years gets
\* v1 + (target - y1)/(y2 - y1) * (v2 - v1) with y1, y2 the nearest known years
\* below and above; (2025, 100) and (2030, 150) give 120 at 2027.
C7_LinearInterpolation ==
    site \in ResampleSites =>
        /\ \A y \in Processed :
              StrictlyInside(y) =>
                 /\ y \in DOMAIN resampled
                 /\ IF site \in RecordSites
                    THEN \A k \in {"total", "65plus", "85plus"} :
                            resampled[y][k] =
                               Interpolated(KnownSeries[Lower(y)][k], KnownSeries[Upper(y)][k],
                                            Lower(y), Upper(y), y)
                    ELSE resampled[y] =
                            Interpolated(KnownSeries[Lower(y)], KnownSeries[Upper(y)],
                                         Lower(y), Upper(y), y)
        /\ ( /\ {2025, 2030} \subseteq DOMAIN KnownSeries
             /\ site \notin RecordSites
             /\ KnownSeries[2025] = Rat(100)
             /\ KnownSeries[2030] = Rat(150)
             /\ 2027 \in Processed )
           => (2027 \in DOMAIN resampled /\ resampled[2027] = Rat(120))

C7_Witness ==
    /\ site = "extract_census_birth_trajectory"
    /\ {2025, 2030} \subseteq DOMAIN KnownSeries
    /\ KnownSeries[2025] = Rat(100)
    /\ KnownSeries[2030] = Rat(150)
    /\ 2027 \in DOMAIN resampled
    /\ resampled[2027] = Rat(120)

\* the nearest known boundary year of a target year outside the known range
Boundary(known, y) ==
    IF \A k \in known : k > y THEN SetMin(known) ELSE SetMax(known)

OutsideRange(known, y) == (\A k \in known : k > y) \/ (\A k \in known : k < y)

\* C8: every target year of a non-empty series gets a value, and outside the
\* known range that value is the value of the nearest known boundary year; a
\* series with one known year resolves every target year to that value.
C8_BoundedPolicy ==
    /\ (site \in (ResampleSites \ {"extract_census_birth_trajectory"})
        /\ KnownSeries # EmptyDict) =>
          \A y \in Processed :
             /\ y \in DOMAIN resampled
             /\ OutsideRange(DOMAIN KnownSeries, y) =>
                   resampled[y] = KnownSeries[Boundary(DOMAIN KnownSeries, y)]
    /\ (site = "assemble_risk_data" /\ series # EmptyDict) =>
          \A it \in Processed :
             (it[1] = "hauer" /\ OutsideRange(DOMAIN series, it[3])) =>
                 resampled[it].proj_sa = series[Boundary(DOMAIN series, it[3])]

\* C9: a series with no known year ends the resampling with a NoDataError
\* (that names the geography), and not with another outcome.
C9_NoDataError ==
    (site \in ResampleSites /\ series = EmptyDict /\ res_pc \notin {"start", "loop"})
        => res_pc = "NoDataError"

\* C10: in compute_enrollment_decline the enrolled birth years of target year
\* Y are the 13 years Y-17..Y-5, affected_grades counts those after 2022 and
\* post_2022_fraction is affected_grades/13 (stored rounded to 3 places);
\* Y = 2025 gives 0 grades and decline 0, Y = 2040 gives 13 and fraction 1.0.
C10_PipelineLag ==
    site = "compute_enrollment_decline" =>
        \A Y \in Processed :
            /\ Y \in DOMAIN resampled
            /\ LET l == resampled[Y]
                   affected == Cardinality({ b \in (Y - 17)..(Y - 5) : b > 2022 })
               IN  /\ l.cohorts = [i \in 1..13 |-> Y - 18 + i]
                   /\ l.post_2022_grades = affected
                   /\ l.post_2022_fraction = Norm(affected, 13)
                   /\ series[Y].post_2022_fraction = RoundScaled(Norm(affected, 13), 1000)
                   /\ (Y = 2025 =>
                          /\ affected = 0
                          /\ l.enrollment_decline_pct = Rat(0)
                          /\ series[Y].enrollment_decline_pct = 0)
                   /\ (Y = 2040 =>
                          /\ affected = 13
                          /\ l.post_2022_fraction = Rat(1)
                          /\ series[Y].post_2022_fraction = 1000)

\* both examples reached on a trajectory whose post-2022 declines are non-zero
C10_Witness ==
    /\ site = "compute_enrollment_decline"
    /\ series[2023].birth_decline_pct # 0
    /\ {2025, 2039, 2040} \subseteq DOMAIN resampled
    /\ resampled[2025].post_2022_grades = 0
    /\ resampled[2039].post_2022_grades = 12
    /\ resampled[2040].post_2022_grades = 13
    /\ resampled[2040].enrollment_decline_pct # Rat(0)

AffectedYears(Y) == { b \in (Y - 17)..(Y - 5) : b > 2022 }

\* sum of birth_decline_pct (in percent) over a set of years of the trajectory
RECURSIVE DeclineSum(_)
DeclineSum(S) ==
    IF S = {} THEN Rat(0)
    ELSE LET b == SetMin(S)
         IN  RatAdd(Norm(series[b].birth_decline_pct, 100), DeclineSum(S \ {b}))

FirstMatchProb(projected_enr, decline_ratio, probs, with_mild_rule) ==
    LET matches == <<RatLt(projected_enr, Rat(100)),
                     RatLt(projected_enr, Rat(200)) /\ RatLt(Norm(1, 4), decline_ratio),
                     RatLt(Norm(1, 10), decline_ratio),
                     with_mild_rule /\ RatLt(Norm(3, 100), decline_ratio),
                     TRUE>>
        first == SetMin({ i \in 1..5 : matches[i] })
    IN  IF first = 1 THEN probs.tiny
        ELSE IF first = 2 THEN probs.small_steep
        ELSE IF first = 3 THEN probs.medium_decline
        ELSE IF first = 4 THEN probs.mild_decline
        ELSE probs.large_stable

\* the buckets that hold at least one school
Occupied(buckets) == { b \in DOMAIN buckets : buckets[b] > 0 }

\* C12: every occupied bucket gets exactly one annual probability, that of the
\* first matching rule in the order size < 100; size < 200 with decline > 0.25;
\* decline > 0.10; (estimate_closures only) decline > 0.03; else background.
C12_FirstMatchingRule ==
    /\ site = "estimate_closures" =>
          \A y \in Processed :
             /\ DOMAIN resampled[y].chosen = Occupied(ctx.buckets)
             /\ \A b \in DOMAIN resampled[y].chosen :
                   resampled[y].chosen[b].annual_prob =
                      FirstMatchProb(resampled[y].chosen[b].projected_enr,
                                     resampled[y].decline_ratio, CLOSURE_PROBS, TRUE)
    /\ site = "process_cooper_center.main" =>
          \A y \in DOMAIN resampled :
             resampled[y].called =>
                /\ DOMAIN resampled[y].chosen = Occupied(ctx.buckets)
                /\ \A b \in DOMAIN resampled[y].chosen :
                      resampled[y].chosen[b].annual_prob =
                         FirstMatchProb(resampled[y].chosen[b].projected_enr,
                                        resampled[y].decline_ratio, CooperClosureProbs, FALSE)

\* a bucket that matches the small-and-steep rule and the decline rules at once
C12_Witness ==
    /\ site = "estimate_closures"
    /\ \E y \in DOMAIN resampled : \E b \in DOMAIN resampled[y].chosen :
          /\ resampled[y].chosen[b].annual_prob = CLOSURE_PROBS.small_steep
          /\ RatLt(Norm(1, 10), resampled[y].decline_ratio)
          /\ ~RatLt(resampled[y].chosen[b].projected_enr, Rat(100))

\* for a fixed annual_prob, cum_prob does not decrease from an earlier target
\* year to a later one
CumProbMonotone ==
    \A y1 \in DOMAIN resampled : \A y2 \in DOMAIN resampled :
       \A b \in (DOMAIN resampled[y1].chosen) \cap (DOMAIN resampled[y2].chosen) :
          ( /\ resampled[y1].years_from_2025 <= resampled[y2].years_from_2025
            /\ resampled[y1].chosen[b].annual_prob = resampled[y2].chosen[b].annual_prob )
          => resampled[y1].chosen[b].cum_prob <= resampled[y2].chosen[b].cum_prob

\* C13 as stated: cum_prob is non-decreasing in years, equals annual_prob when
\* years = 1, and a target year at the base year yields annual_prob, not 0.
C13_CumProbEqualsAnnualAtOne ==
    site = "estimate_closures" =>
        /\ CumProbMonotone
        /\ \A y \in Processed : \A b \in DOMAIN resampled[y].chosen :
              LET c == resampled[y].chosen[b]
              IN  /\ (resampled[y].years_from_2025 = 1 => c.cum_prob = FloatProb(c.annual_prob))
                  /\ (y <= 2025 => c.cum_prob = FloatProb(c.annual_prob))

\* half the spacing of the floats just below 1.0: the rounding of 1.0 - p
HalfUlpBelowOne == ProbUnit \div Pow2(ProbPrec + 1)

\* C13 amended: cum_prob is non-decreasing in years; with years = 1, and so
\* for a target year at the base year, it is annual_prob up to the rounding
\* of 1.0 - annual_prob, and it is not 0.
C13_CumProbNearAnnualAtOne ==
    site = "estimate_closures" =>
        /\ CumProbMonotone
        /\ \A y \in Processed : \A b \in DOMAIN resampled[y].chosen :
              LET c == resampled[y].chosen[b]
              IN  /\ (y <= 2025 => resampled[y].years_from_2025 = 1)
                  /\ (resampled[y].years_from_2025 = 1 =>
                         /\ Abs(c.cum_prob - FloatProb(c.annual_prob)) <= HalfUlpBelowOne
                         /\ c.cum_prob > 0)
                  /\ c.cum_prob <= ProbUnit

\* a bucket scored with the same annual probability at the base year and at
\* the last target year
C13_Witness ==
    /\ site = "estimate_closures"
    /\ {2025, 2040} \subseteq DOMAIN resampled
    /\ \E b \in (DOMAIN resampled[2025].chosen) \cap (DOMAIN resampled[2040].chosen) :
          /\ resampled[2025].chosen[b].annual_prob = resampled[2040].chosen[b].annual_prob
          /\ resampled[2025].chosen[b].cum_prob # FloatProb(resampled[2025].chosen[b].annual_prob)
          /\ resampled[2025].chosen[b].cum_prob < resampled[2040].chosen[b].cum_prob

(***************************************************************************)
(* Properties of the composer (assemble_risk_data)                         *)
(***************************************************************************)
\* the tier a county's schools fall in for a composite decline (a fraction)
TierForDecline(decline) ==
    IF RatLt(decline, Norm(10, 100)) THEN "schools_green"
    ELSE IF RatLt(decline, Norm(25, 100)) THEN "schools_yellow"
    ELSE IF RatLt(decline, Norm(50, 100)) THEN "schools_orange"
    ELSE "schools_red"

\* C14: the composite decline 1 - combined_ratio is 1 - (1 - a)(1 - b) for the
\* demographic decline a = 1 - demo_ratio and the participation decline
\* b = 1 - tps_mult; a decline of 0 on one axis leaves the other, a decline of
\* 1 on one axis gives 1.  The schools are tiered by that composite decline.
C14_ComposeSurvivingFractions ==
    site = "assemble_risk_data" =>
        \A it \in Processed :
            LET l == resampled[it]
                a == RatSub(Rat(1), l.demo_ratio)
                b == RatSub(Rat(1), l.tps_mult)
                composite == RatSub(Rat(1), l.combined_ratio)
            IN  /\ composite = RatSub(Rat(1), RatMul(RatSub(Rat(1), a), RatSub(Rat(1), b)))
                /\ (a = Rat(0) => composite = b)
                /\ (b = Rat(0) => composite = a)
                /\ (a = Rat(1) \/ b = Rat(1) => composite = Rat(1))
                /\ emitted[RecordKey(it)][TierForDecline(composite)] = Len(ctx.school_list)

\* identity and absorption both met in one county: no demographic decline
\* against a real participation decline, and a total demographic loss
C14_Witness ==
    /\ site = "assemble_risk_data"
    /\ \E it \in DOMAIN resampled :
          /\ resampled[it].demo_ratio = Rat(1)
          /\ resampled[it].tps_mult \notin {Rat(0), Rat(1)}
          /\ resampled[it].combined_ratio = resampled[it].tps_mult
    /\ \E it \in DOMAIN resampled :
          /\ resampled[it].demo_ratio = Rat(0)
          /\ resampled[it].tps_mult # Rat(1)
          /\ resampled[it].combined_ratio = Rat(0)
          /\ emitted[RecordKey(it)].schools_red = Len(ctx.school_list)

\* the 8 scenario keys
ScenarioKeys ==
    { d \o "_" \o sc : d \in {"hauer", "census"},
                       sc \in {"pre_hold", "pre_trend", "post_hold", "post_trend"} }

\* C15: a county's entry gets exactly one record per element of
\* {hauer, census} x {pre_hold, pre_trend, post_hold, post_trend} x YEARS: every
\* iteration writes a key no earlier iteration wrote, and after the loop the
\* keys are the 8 scenario keys, each with all 6 target years.
C15_OneRecordPerCombination ==
    site = "assemble_risk_data" =>
        /\ Cardinality(DOMAIN emitted) = Len(AssembleOrder) - Len(pending)
        /\ DOMAIN emitted = { RecordKey(it) : it \in Processed }
        /\ res_pc = "done" =>
              /\ Cardinality(ScenarioKeys) = 8
              /\ DOMAIN emitted =
                    { <<k, ToString(yr)>> : k \in ScenarioKeys, yr \in SCHOOL_YEARS }
              /\ Cardinality(DOMAIN emitted) = 48

C15_Witness ==
    /\ site = "assemble_risk_data"
    /\ res_pc = "done"
    /\ <<"hauer_pre_hold", "2025">> \in DOMAIN emitted
    /\ <<"census_post_trend", "2050">> \in DOMAIN emitted
    /\ emitted[<<"hauer_post_trend", "2050">>] # emitted[<<"census_post_trend", "2050">>]

(***************************************************************************)
(* Properties of the school-size buckets                                   *)
(***************************************************************************)
\* the schools of state st the aggregation loop has folded so far
FoldedSchools(st) ==
    { i \in 1..(Len(series) - Len(pending)) : series[i].st = st }

\* the enrollments that belong to a bucket
InBucket(b, enrollment) ==
    IF b = "under100" THEN enrollment < 100
    ELSE IF b = "100_199" THEN 100 <= enrollment /\ enrollment < 200
    ELSE IF b = "200_299" THEN 200 <= enrollment /\ enrollment < 300
    ELSE IF b = "300_499" THEN 300 <= enrollment /\ enrollment < 500
    ELSE 500 <= enrollment

\* C16: after any sequence of filtered schools, for every state the five bucket
\* counts sum to total_schools, and every school is counted in exactly one
\* bucket, the one its enrollment belongs to.
C16_BucketsSumToTotal ==
    site = "process_ccd_schools" =>
        /\ DOMAIN emitted = { st \in {"MI", "OH"} : FoldedSchools(st) # {} }
        /\ \A st \in DOMAIN emitted :
              LET sd == emitted[st]
              IN  /\ sd.total_schools = Cardinality(FoldedSchools(st))
                  /\ sd.buckets["under100"] + sd.buckets["100_199"] + sd.buckets["200_299"]
                       + sd.buckets["300_499"] + sd.buckets["500plus"] = sd.total_schools
                  /\ \A b \in DOMAIN sd.buckets :
                        sd.buckets[b] =
                           Cardinality({ i \in FoldedSchools(st) :
                                            InBucket(b, series[i].enrollment) })
        /\ \A e \in {99, 100, 499, 500} :
              Cardinality({ b \in DOMAIN CcdZero.buckets : InBucket(b, e) }) = 1

\* two schools of one state on either side of a bucket boundary
C16_Witness ==
    /\ site = "process_ccd_schools"
    /\ res_pc = "done"
    /\ "MI" \in DOMAIN emitted
    /\ emitted["MI"].total_schools = MaxSchools
    /\ emitted["MI"].buckets["300_499"] = 1
    /\ emitted["MI"].buckets["500plus"] = MaxSchools - 1

\* C17: expected_closures is >= 0 and at most the state's number of schools,
\* and expected_closures_pct lies in [0, 100] (kept in tenths: 0..1000), in
\* estimate_closures and in the cooper_center scenario built on
\* compute_closures.
C17_ExpectedClosuresBounded ==
    /\ site = "estimate_closures" =>
          \A y \in Processed :
             /\ 0 <= resampled[y].expected_closures
             /\ resampled[y].expected_closures <= ctx.current_schools * ProbUnit
             /\ 0 <= series[y].expected_closures
             /\ series[y].expected_closures <= 10 * ctx.current_schools
             /\ 0 <= series[y].expected_closures_pct
             /\ series[y].expected_closures_pct <= 1000
    /\ site = "process_cooper_center.main" =>
          \A y \in DOMAIN resampled :
             /\ 0 <= resampled[y].closures
             /\ resampled[y].closures <= ctx.current_schools * ProbUnit
             /\ 0 <= emitted[y].expected_closures
             /\ emitted[y].expected_closures <= 10 * ctx.current_schools
             /\ 0 <= emitted[y].expected_closures_pct
             /\ emitted[y].expected_closures_pct <= 1000

\* a state whose schools all fall under the highest rate, at the last horizon
C17_Witness ==
    /\ site = "estimate_closures"
    /\ 2040 \in DOMAIN resampled
    /\ ctx.current_schools = MaxSchools
    /\ resampled[2040].risk_severe = MaxSchools
    /\ series[2040].expected_closures_pct > 300
    /\ series[2040].expected_closures > 0

(***************************************************************************)
(* Frame properties of the stages                                          *)
(***************************************************************************)
\* C18: no stage changes the value it received from an earlier stage:
\* compute_enrollment_decline and estimate_closures leave the records of the
\* fertility projections as they were, and resampling leaves the aggregator's
\* per-key table as it was.
C18_StagesLeaveInputsUnchanged ==
    [][(site \in {"compute_enrollment_decline", "estimate_closures",
                  "process_hauer", "process_cooper"})
          => (series' = series)]_vars

(***************************************************************************)
(* Reporting of the geographies a stage leaves out                         *)
(***************************************************************************)
\* a county for which process_hauer / process_cooper wrote no year
DroppedCounty ==
    /\ site \in {"process_hauer", "process_cooper"}
    /\ res_pc = "done"
    /\ emitted = EmptyDict

\* a state that estimate_closures or process_cooper_center.main passed over
SkippedState ==
    /\ site \in {"estimate_closures", "process_cooper_center.main"}
    /\ res_pc = "skipped"

\* C19: a geography that a stage leaves out of its result (no schools in
\* estimate_closures, no positive total in process_hauer / process_cooper, no
\* 2020 baseline in process_cooper_center) is reported, never dropped
\* silently.
C19_ExcludedGeographyReported ==
    (DroppedCounty \/ SkippedState) => reported # {}

(***************************************************************************)
(* The two closure models                                                  *)
(***************************************************************************)
\* C20: compute_closures of process_cooper_center is the closure model of
\* estimate_closures: given the decline ratio, the buckets and the horizon of
\* an iteration of estimate_closures, it selects the same annual probability
\* for every occupied bucket and returns the same expected_closures.
C20_SameClosureModel ==
    site = "estimate_closures" =>
       \A y \in DOMAIN resampled :
          LET l == resampled[y]
              cc == compute_closures(l.decline_ratio, ctx.buckets, l.years_from_2025)
          IN  /\ DOMAIN cc.chosen = DOMAIN l.chosen
              /\ \A b \in DOMAIN l.chosen :
                    cc.chosen[b].annual_prob = l.chosen[b].annual_prob
              /\ cc.expected_closures = l.expected_closures

(***************************************************************************)
(* The fertility floor                                                     *)
(***************************************************************************)
\* C21: in both trajectories of build_fertility_projections the projected
\* rate of every year is at least FERTILITY_FLOOR, so birth_decline_pct never
\* exceeds (1 - FERTILITY_FLOOR / rate_2022) * 100.
C21_RateAtLeastFloor ==
    site = "build_fertility_projections" =>
       \A y \in DOMAIN emitted : \A sc \in {"census", "state_trend"} :
          /\ emitted[y][sc].rate >= FERTILITY_FLOOR * 100
          /\ emitted[y][sc].birth_decline_pct * ctx.fdata.rate_2022
                <= (ctx.fdata.rate_2022 - FERTILITY_FLOOR * 10) * 100 * 100

(***************************************************************************)
(* The floor of the participation multiplier                               *)
(***************************************************************************)
\* C22: every multiplier compute_tps_multipliers returns, for each scenario
\* and year, is at least 0.5, whatever the fitted slope; so the combined
\* ratio of assemble_risk_data is never below half the demographic ratio.
C22_MultiplierAtLeastHalf ==
    /\ site = "compute_tps_multipliers" =>
          \A k \in DOMAIN emitted :
             /\ emitted[k] >= 5000
             /\ RatLe(Norm(1, 2), resampled[k].mult)
    /\ site = "assemble_risk_data" =>
          \A k \in DOMAIN resampled :
             RatLe(Norm(1, 2), resampled[k].tps_mult)
                => RatLe(RatMul(Norm(1, 2), resampled[k].demo_ratio),
                         resampled[k].combined_ratio)

\* a trend that runs below half of the current share, and below zero, by 2050
C22_Witness ==
    /\ site = "compute_tps_multipliers"
    /\ <<"pre_trend", 2050>> \in DOMAIN emitted
    /\ RatLt(resampled[<<"pre_trend", 2050>>].raw, Rat(0))
    /\ emitted[<<"pre_trend", 2050>>] = 5000
    /\ emitted[<<"pre_hold", 2025>>] > 5000

(***************************************************************************)
(* process_nces: flags and the extended trend                              *)
(***************************************************************************)
\* the value of year y was computed between the 2025 and 2031 source values
ComputedByInterpolation(y) == HasTrendYears(series) /\ y \in 2026..2030

\* the value of year y was computed by extending the 2025-2031 trend
ComputedByTrend(y) == HasTrendYears(series) /\ y \in 2032..2050

\* C23: a record of process_nces is flagged interpolated exactly when its
\* value was interpolated between the 2025 and 2031 source values, and
\* extrapolated exactly when its value extends the 2025-2031 trend; a value
\* taken from the source carries neither flag.
C23_FlagsFollowProvenance ==
    site = "process_nces" =>
       \A y \in DOMAIN emitted :
          /\ emitted[y].interpolated <=> ComputedByInterpolation(y)
          /\ emitted[y].extrapolated <=> ComputedByTrend(y)

\* the years the extension loop has written so far
ExtendedYears ==
    IF res_pc = "extrapolate" THEN { y \in 2032..2050 : y < Head(pending) }
    ELSE IF res_pc \in {"records", "done"} THEN 2032..2050
    ELSE {}

\* C24: for every year y in 2032..2050 the value process_nces writes is the
\* 2031 value plus (y - 2031) times (v2031 - v2025) / 6, rounded and floored
\* at 0: it is never negative, and once it is 0 it is 0 in every later year.
C24_TrendFlooredAtZero ==
    (site = "process_nces" /\ HasTrendYears(series)) =>
       \A y \in ExtendedYears :
          LET trend == RatAdd(Rat(series[2031]),
                              RatMul(Rat(y - 2031), Norm(series[2031] - series[2025], 6)))
          IN  /\ resampled[y] >= 0
              /\ resampled[y] = IF RatLt(trend, Rat(0)) THEN 0 ELSE RoundInt(trend)
              /\ \A z \in ExtendedYears \cap (2032..y) :
                    resampled[z] = 0 => resampled[y] = 0
              /\ (y \in DOMAIN emitted => emitted[y].projected_enrollment = resampled[y])

\* a falling state whose trend crosses zero before 2050
C24_Witness ==
    /\ site = "process_nces"
    /\ res_pc = "done"
    /\ HasTrendYears(series)
    /\ series[2031] < series[2025]
    /\ emitted[2032].projected_enrollment > 0
    /\ emitted[2050].projected_enrollment = 0
    /\ 6 * series[2031] + 19 * (series[2031] - series[2025]) < 0

(***************************************************************************)
(* Subtotals of the distributed projections                                *)
(***************************************************************************)
\* C25: every county-year record of process_cooper satisfies
\* pop_85plus <= pop_65plus <= pop_total and pct_65plus <= 100, for ACS
\* baselines with 85+ <= 65+ <= total.
C25_CooperSubtotalWithinTotal ==
    (/\ site = "process_cooper"
     /\ RatLe(ctx.cdata["85plus"], ctx.cdata["65plus"])
     /\ RatLe(ctx.cdata["65plus"], ctx.cdata["total"]))
    => \A y \in DOMAIN emitted :
          /\ emitted[y].pop_85plus <= emitted[y].pop_65plus
          /\ emitted[y].pop_65plus <= emitted[y].pop_total
          /\ emitted[y].pct_65plus <= 1000

(***************************************************************************)
(* Resampling and the aggregate invariant                                  *)
(***************************************************************************)
\* 0 <= 85plus <= 65plus <= total
SubtotalsOrdered(d) ==
    /\ RatLe(Rat(0), d["85plus"])
    /\ RatLe(d["85plus"], d["65plus"])
    /\ RatLe(d["65plus"], d["total"])

TierFields == {"schools_green", "schools_yellow", "schools_orange", "schools_red"}

\* C27: in every record of assemble_risk_data exactly one of the four tier
\* counts equals schools_total and the other three are 0, because the tier
\* depends only on the county-wide combined ratio; schools_below_threshold
\* lies between 0 and schools_total.
C27_OneTierPerRecord ==
    site = "assemble_risk_data" =>
       \A it \in Processed :
          LET rec == emitted[RecordKey(it)]
              schools_total == Len(ctx.school_list)
          IN  /\ \E f \in TierFields :
                    /\ rec[f] = schools_total
                    /\ \A g \in TierFields \ {f} : rec[g] = 0
              /\ 0 <= rec.schools_below_threshold
              /\ rec.schools_below_threshold <= schools_total

\* a county of two schools, all red, with one of them below the threshold
\* in another record
C27_Witness ==
    /\ site = "assemble_risk_data"
    /\ res_pc = "done"
    /\ Len(ctx.school_list) = 2
    /\ \E it \in Processed : emitted[RecordKey(it)].schools_red = 2
    /\ \E it \in Processed :
          /\ emitted[RecordKey(it)].schools_below_threshold = 1
          /\ emitted[RecordKey(it)].schools_green = 2

(***************************************************************************)
(* Monotonicity of the closure model                                       *)
(***************************************************************************)
\* the decline ratios of [0, 1] among the modelled levels
UnitDeclines == { Norm(h, 100 * 100) : h \in { k \in DeclineLevels : 0 <= k /\ k <= 100 * 100 } }

\* estimate_closures' bucket loop on the state's schools at decline d
EstimateAt(d, years) ==
    BucketScan(ctx.schools, d, years, 1,
               [expected_closures |-> 0, risk_elevated |-> 0, risk_severe |-> 0,
                chosen |-> EmptyDict])

\* r2 selects at least the probabilities of r1 and expects at least as many
\* closures
NoFewerClosures(r1, r2) ==
    /\ DOMAIN r1.chosen = DOMAIN r2.chosen
    /\ \A b \in DOMAIN r1.chosen :
          r1.chosen[b].annual_prob <= r2.chosen[b].annual_prob
    /\ r1.expected_closures <= r2.expected_closures

\* the target year the loop scored last
LastScored == IF DOMAIN resampled = {} THEN {} ELSE {SetMax(DOMAIN resampled)}

\* the modelled decline ratios just above d; comparing neighbours covers
\* every pair, the order being transitive
NextDeclines(d) ==
    { e \in UnitDeclines :
        /\ RatLt(d, e)
        /\ \A f \in UnitDeclines : RatLt(d, f) => RatLe(e, f) }

\* C28: for fixed bucket counts and a fixed horizon, a larger decline ratio
\* (both in [0, 1]) selects for each bucket an annual probability at least
\* as large and gives expected_closures at least as large, in
\* estimate_closures and in compute_closures.
C28_ClosuresMonotoneInDecline ==
    site = "estimate_closures" =>
       \A y \in LastScored :
          LET years == resampled[y].years_from_2025
              d1 == resampled[y].decline_ratio
          IN  d1 \in UnitDeclines =>
                 \A d2 \in NextDeclines(d1) :
                    /\ NoFewerClosures([expected_closures |-> resampled[y].expected_closures,
                                        chosen |-> resampled[y].chosen],
                                       EstimateAt(d2, years))
                    /\ NoFewerClosures(compute_closures(d1, ctx.buckets, years),
                                       compute_closures(d2, ctx.buckets, years))

\* a state with a school of 100 to 199 pupils, scored at a decline of 10%
\* (the mild rate): at 25.01% the bucket moves to the small-and-steep rate
\* and more closures are expected
C28_Witness ==
    /\ site = "estimate_closures"
    /\ 2030 \in DOMAIN resampled
    /\ resampled[2030].decline_ratio = Norm(10, 100)
    /\ ctx.buckets["100_199"] > 0
    /\ resampled[2030].chosen["100_199"].annual_prob = CLOSURE_PROBS["mild_decline"]
    /\ EstimateAt(Norm(2501, 100 * 100), 5).chosen["100_199"].annual_prob = CLOSURE_PROBS["small_steep"]
    /\ resampled[2030].expected_closures
          < EstimateAt(Norm(2501, 100 * 100), 5).expected_closures

(***************************************************************************)
(* The pagination loops: fetch_ccd_data (process_closure_risk.py) and      *)
(* fetch_ccd_schools (process_school_data.py), with no cache file.  One    *)
(* action is one pass through the `while True` body, the request and its   *)
(* outcome included.  `series` is the API: it serves `pages` non-empty     *)
(* pages and fails the request for page `fail_page`, for `failures` more   *)
(* requests or for good.  `ctx` holds page and the number of pages in      *)
(* all_schools.                                                            *)
(***************************************************************************)
ApiServers ==
    { [pages |-> n, fail_page |-> f, failures |-> k, permanent |-> b] :
         n \in 0..MaxPages, f \in 0..(MaxPages + 1), k \in 0..MaxFailures, b \in BOOLEAN }

\* the outcome of requesting the page-th page, pages being numbered from first
ApiResponse(server, page, first) ==
    IF server.fail_page = page /\ (server.permanent \/ server.failures > 0) THEN "error"
    ELSE IF page - first < server.pages THEN "results"
    ELSE "empty"

\* the API after a request for page
ApiAfter(server, page) ==
    IF server.fail_page = page /\ ~server.permanent /\ server.failures > 0
    THEN [server EXCEPT !.failures = @ - 1]
    ELSE server

FetchInit ==
    /\ FoldIdle
    /\ reported = {}
    /\ site \in {"fetch_ccd_data", "fetch_ccd_schools"}
    /\ series \in { sv \in ApiServers : sv.fail_page <= sv.pages + 1 }
    /\ ctx = [page |-> IF site = "fetch_ccd_data" THEN 0 ELSE 1, all_schools |-> 0]
    /\ pending = << >>
    /\ resampled = EmptyDict
    /\ emitted = EmptyDict
    /\ res_pc = "loop"

\* fetch_ccd_data: one pass of the loop; an error on a later page goes to
\* the sleep of the except branch with page unchanged
CcdDataRequest ==
    /\ site = "fetch_ccd_data"
    /\ res_pc = "loop"
    /\ LET r == ApiResponse(series, ctx.page, 0)
       IN  /\ series' = ApiAfter(series, ctx.page)
           /\ IF r = "results"
              THEN /\ ctx' = [page |-> ctx.page + 1, all_schools |-> ctx.all_schools + 1]
                   /\ UNCHANGED <<res_pc, emitted>>
              ELSE IF r = "error" /\ ctx.page > 0
              THEN /\ res_pc' = "sleeping"
                   /\ UNCHANGED <<ctx, emitted>>
              ELSE /\ res_pc' = "returned"
                   /\ emitted' = [all_schools |-> ctx.all_schools]
                   /\ UNCHANGED ctx
    /\ UNCHANGED <<site, pending, resampled>>
    /\ UNCHANGED reported
    /\ UNCHANGED foldVars

\* fetch_ccd_data: after the sleep of the except branch, `continue` starts the
\* next pass of the loop
CcdDataRetry ==
    /\ site = "fetch_ccd_data"
    /\ res_pc = "sleeping"
    /\ res_pc' = "loop"
    /\ UNCHANGED <<site, series, ctx, pending, resampled, emitted>>
    /\ UNCHANGED reported
    /\ UNCHANGED foldVars

\* fetch_ccd_schools: one pass of the loop; any error, an empty page or a
\* page without `next` ends it
CcdSchoolsRequest ==
    /\ site = "fetch_ccd_schools"
    /\ res_pc = "loop"
    /\ LET r == ApiResponse(series, ctx.page, 1)
           last == ctx.page >= series.pages
       IN  /\ series' = ApiAfter(series, ctx.page)
           /\ IF r = "results" /\ ~last
              THEN /\ ctx' = [page |-> ctx.page + 1, all_schools |-> ctx.all_schools + 1]
                   /\ UNCHANGED <<res_pc, emitted>>
              ELSE /\ res_pc' = "returned"
                   /\ ctx' = [ctx EXCEPT !.all_schools = IF r = "results" THEN @ + 1 ELSE @]
                   /\ emitted' = [all_schools |-> ctx'.all_schools]
    /\ UNCHANGED <<site, pending, resampled>>
    /\ UNCHANGED reported
    /\ UNCHANGED foldVars

FetchNext == CcdDataRequest \/ CcdDataRetry \/ CcdSchoolsRequest

\* the interpreter keeps running the loop while it has not returned
SpecFetch == FetchInit /\ [][FetchNext]_vars /\ WF_vars(FetchNext)

\* C29: the pagination loop of fetch_ccd_data returns for every sequence of
\* API responses, a failing request being retried finitely often or ending
\* the loop, as the loop of fetch_ccd_schools does.
C29_FetchReturns == <>(res_pc = "returned")

(***************************************************************************)
(* What process_cooper_center.main changes in state_projections.json       *)
(***************************************************************************)
\* scenario_data as main computes it from a state's entry and school_age
CooperCenterScenario(state_entry, school_age) ==
    LET baseline == [yr \in {2020} |->
                        CooperCenterBaselineRecord(state_entry, school_age[2020])]
    IN  IF 2030 \in DOMAIN school_age /\ school_age[2030] # 0
        THEN DictSet(baseline, 2030,
                     CooperCenterRecord(state_entry, school_age[2020], school_age[2030],
                        CooperCenterLocals(state_entry, school_age[2020], school_age[2030], 2030)))
        ELSE baseline

\* every field of the entry but 'scenarios', and every scenario but
\* 'cooper_center', is in ctx' what it is in ctx
EntryKeptButCooperCenter ==
    /\ DOMAIN ctx' = DOMAIN ctx
    /\ \A f \in DOMAIN ctx \ {"scenarios"} : ctx'[f] = ctx[f]
    /\ \A sc \in DOMAIN ctx.scenarios \ {"cooper_center"} :
          /\ sc \in DOMAIN ctx'.scenarios
          /\ ctx'.scenarios[sc] = ctx.scenarios[sc]
    /\ DOMAIN ctx'.scenarios \subseteq DOMAIN ctx.scenarios \cup {"cooper_center"}

\* C30: a run of process_cooper_center's main changes only the
\* 'cooper_center' scenario of a state's entry; a state without a 2020
\* baseline keeps its entry as it is; and running main on its own output
\* stores the same scenario again.
C30_OnlyCooperCenterChanges ==
    /\ [][site = "process_cooper_center.main" =>
            /\ EntryKeptButCooperCenter
            /\ (res_pc' = "skipped" => ctx' = ctx)]_vars
    /\ []((site = "process_cooper_center.main" /\ res_pc = "done") =>
            ctx.scenarios["cooper_center"] = CooperCenterScenario(ctx, series))

\* a declining state with schools whose entry held an earlier cooper_center
\* scenario, after the run
C30_Witness ==
    /\ site = "process_cooper_center.main"
    /\ res_pc = "done"
    /\ ctx.current_schools = MaxSchools
    /\ DOMAIN ctx.scenarios = {"census", "state_trend", "cooper_center"}
    /\ DOMAIN ctx.scenarios["cooper_center"] = {2020, 2030}
    /\ ctx.scenarios["cooper_center"][2030].enrollment_decline_pct > 0
    /\ ctx.scenarios["cooper_center"][2030].expected_closures > 0

====
